---- MODULE Spec2Model ----
(***************************************************************************)
(* Rebuild pipeline of pultimate: the Celery task rebuild_deck_task        *)
(* (apps/api/worker.py), the oracle adapter call_llm_for_mapping           *)
(* (apps/api/services/llm_service.py) and the mapping schema               *)
(* (apps/api/schemas/mapping_schema.py), for one rebuild job.              *)
(*                                                                         *)
(* A delivery is one message of the broker carrying the job id; a delivery *)
(* runs the task, and every self.retry() re-runs it with retries + 1.      *)
(* The job record, its events, its artifact rows and the blob store are    *)
(* shared by all deliveries of the job.                                    *)
(***************************************************************************)
EXTENDS Naturals, Integers, Sequences, FiniteSets, TLC

\* ------------------------------------------------------------------ bounds
\* deliveries of the one job id the broker may make
MaxDeliveries == 2
\* failures the environment injects in one behaviour: transient exceptions
\* (storage, database, provider, parser) and oracle answers that are rejected
MaxFaults == 1

Deliveries == 1..MaxDeliveries

\* ------------------------------------------------------- program constants
\* @celery_app.task(bind=True, max_retries=3, ...)
max_retries == 3
\* str(e)[:500]
ErrMax == 500

Null == "None"

\* lengths of the messages of the exceptions the task raises itself
LenKeyMissing == 37
LenNoSource == 23
LenNoPublished == 33
\* f"Apply mapping errors: {result.errors}" for ['Template has no layouts']
LenApplyErrors == 49
\* "No output file generated"
LenNoOutput == 24
\* lengths of the messages of foreign exceptions: a short one and one past the cut
ExcLens == {40, 720}

\* ------------------------------------------------------------ the job's inputs
\* element ids parse_deck_elements returns for the job's deck
ElementIds == {"slide_0_shape_7", "slide_0_shape_9"}
\* placeholder ids parse_template_placeholders returns for the job's template
PlaceholderIds == {"layout_0_ph_1", "layout_0_ph_2"}

\* the job's deck: one slide with a title (native id 7) and a body (native id 9)
JobDeck ==
    <<<<[shape_id |-> 7, paragraphs |-> <<"Q3 results">>, has_text_frame |-> TRUE],
        [shape_id |-> 9, paragraphs |-> <<"Revenue up">>, has_text_frame |-> TRUE]>>>>

\* published template versions; each of the first two has PlaceholderIds as the
\* ids of its one layout
\* two content placeholders, idx 1 and 2
TemplateTwoContent ==
    [slides |-> <<>>,
     layouts |-> <<<<[idx |-> 1, shape_id |-> 2], [idx |-> 2, shape_id |-> 3]>>>>]
\* a title (idx 0) of shape id 1 on the layout: its id is layout_0_ph_1 there
\* and layout_0_ph_2 on a new slide
TemplateTitleFirst ==
    [slides |-> <<>>,
     layouts |-> <<<<[idx |-> 0, shape_id |-> 1], [idx |-> 2, shape_id |-> 3]>>>>]
\* no layout at all
TemplateNoLayouts == [slides |-> <<>>, layouts |-> <<>>]

\* the template versions by name, and the file of each
JobTemplates == {"two content", "title first", "no layouts"}

TemplateFile(version) ==
    CASE version = "two content" -> TemplateTwoContent
      [] version = "title first" -> TemplateTitleFirst
      [] OTHER -> TemplateNoLayouts

EM(src, tgt, act) ==
    [source_element_id |-> src, target_placeholder_id |-> tgt, action |-> act]

SM(li, ems) == [layout_index |-> li, element_mappings |-> ems]

Doc(sms, skipped) == [slide_mappings |-> sms, skipped_elements |-> skipped]

NotJson == [slide_mappings |-> <<>>, skipped_elements |-> <<"<not json>">>]

\* what the provider may answer: text, and what json.loads makes of it
RawEmpty == [text |-> "", json |-> FALSE, value |-> NotJson]
RawProse == [text |-> "Sure! Here is the mapping", json |-> FALSE, value |-> NotJson]
RawNoSlides == [text |-> "{no slides}", json |-> TRUE, value |-> Doc(<<>>, <<>>)]
RawBadRef ==
    [text |-> "{unknown source}", json |-> TRUE,
     value |-> Doc(<<SM(0, <<EM("slide_0_shape_999", "layout_0_ph_1", "MAP")>>)>>, <<>>)]
RawValid ==
    [text |-> "{valid}", json |-> TRUE,
     value |-> Doc(<<SM(0, <<EM("slide_0_shape_7", "layout_0_ph_1", "MAP"),
                              EM("slide_0_shape_9", Null, "SKIP")>>)>>, <<>>)]

\* an answer that fits the schema, with valid references, and one key more
RawGenerated ==
    [text |-> "{valid, generated_text}", json |-> TRUE,
     value |-> Doc(<<SM(0, <<[source_element_id |-> "slide_0_shape_7",
                               target_placeholder_id |-> "layout_0_ph_1",
                               action |-> "MAP",
                               generated_text |-> "Revenue grew 40% this quarter"]>>)>>,
                   <<>>)]

RawOutputs == {RawEmpty, RawProse, RawNoSlides, RawBadRef, RawValid, RawGenerated}

MappingActions == {"MAP", "SKIP", "OVERFLOW"}

\* ------------------------------------------------------- mapping_schema.py
\* info.data holds the fields validated before target_placeholder_id, which
\* are declared above it: source_element_id only, so "action" is not there yet
InfoDataAction(em) == Null

validate_placeholder_for_action(em) ==
    ~(InfoDataAction(em) = "MAP" /\ em.target_placeholder_id = Null)

ElementMappingValid(em) ==
    /\ em.action \in MappingActions
    /\ validate_placeholder_for_action(em)

validate_non_empty(sms) == Len(sms) > 0

\* the key target_placeholder_id is not in the input
Omitted == "<omitted>"

\* ElementMapping(**raw) / ElementMapping.model_validate(raw): the field validator
\* runs on a target_placeholder_id that is given, null included, and not on the
\* default of one that is omitted; the instance holds None in both cases
ElementMappingNew(raw) ==
    LET given == raw.target_placeholder_id # Omitted
        em == EM(raw.source_element_id,
                 IF given THEN raw.target_placeholder_id ELSE Null,
                 raw.action)
    IN  [ok |-> /\ raw.action \in MappingActions
                /\ given => validate_placeholder_for_action(em),
         em |-> em]

\* MappingResult.model_validate: the models set no model_config, so pydantic's
\* default extra="ignore" applies and keys the models do not declare are dropped
\* without an error; only the declared fields are looked at
SchemaValid(doc) ==
    /\ validate_non_empty(doc.slide_mappings)
    /\ \A i \in 1..Len(doc.slide_mappings) :
          \A j \in 1..Len(doc.slide_mappings[i].element_mappings) :
             ElementMappingValid(doc.slide_mappings[i].element_mappings[j])

\* the errors of one element mapping, in the order the code appends them
RefErrorsOfEM(em, element_ids, placeholder_ids) ==
    (IF em.source_element_id \notin element_ids
       THEN <<[kind |-> "Unknown source element", id |-> em.source_element_id]>>
       ELSE <<>>)
    \o
    (IF em.action = "MAP" /\ em.target_placeholder_id \notin placeholder_ids
       THEN <<[kind |-> "Unknown target placeholder", id |-> em.target_placeholder_id]>>
       ELSE <<>>)

RECURSIVE RefErrorsOfEMs(_, _, _)
RefErrorsOfEMs(ems, element_ids, placeholder_ids) ==
    IF ems = <<>> THEN <<>>
    ELSE RefErrorsOfEM(Head(ems), element_ids, placeholder_ids)
         \o RefErrorsOfEMs(Tail(ems), element_ids, placeholder_ids)

RECURSIVE RefErrorsOfSlides(_, _, _)
RefErrorsOfSlides(sms, element_ids, placeholder_ids) ==
    IF sms = <<>> THEN <<>>
    ELSE RefErrorsOfEMs(Head(sms).element_mappings, element_ids, placeholder_ids)
         \o RefErrorsOfSlides(Tail(sms), element_ids, placeholder_ids)

RECURSIVE RefErrorsOfSkipped(_, _)
RefErrorsOfSkipped(ids, element_ids) ==
    IF ids = <<>> THEN <<>>
    ELSE (IF Head(ids) \notin element_ids
            THEN <<[kind |-> "Unknown skipped element", id |-> Head(ids)]>>
            ELSE <<>>)
         \o RefErrorsOfSkipped(Tail(ids), element_ids)

\* the loops end at the first error they find
validate_stops_at_first(doc, element_ids, placeholder_ids) ==
    LET errors == RefErrorsOfSlides(doc.slide_mappings, element_ids, placeholder_ids)
                  \o RefErrorsOfSkipped(doc.skipped_elements, element_ids)
    IN  IF errors = <<>> THEN <<>> ELSE <<Head(errors)>>

validate_mapping_against_inputs(doc, element_ids, placeholder_ids) ==
    RefErrorsOfSlides(doc.slide_mappings, element_ids, placeholder_ids)
    \o RefErrorsOfSkipped(doc.skipped_elements, element_ids)

\* ---------------------------------------------------------- llm_service.py
\* a text is the sequence of its characters; text_preview is None or a text
NoPreview == [none |-> TRUE, chars |-> <<>>]
Preview(chars) == [none |-> FALSE, chars |-> chars]

\* e.text_preview[:50]
PreviewCut == 50

\* chars[:n]
Slice(chars, n) == SubSeq(chars, 1, IF Len(chars) < n THEN Len(chars) ELSE n)

\* "text_preview": e.text_preview[:50] if e.text_preview else None
\* (None and the empty text are both falsy)
PromptPreview(tp) ==
    IF tp.none \/ tp.chars = <<>> THEN NoPreview ELSE Preview(Slice(tp.chars, PreviewCut))

\* the entry of elements_json for one element
ElementJson(e) ==
    [element_id |-> e.element_id,
     slide_index |-> e.slide_index,
     type |-> e.element_type,
     text_preview |-> PromptPreview(e.text_preview)]

\* the entry of placeholders_json for one placeholder
PlaceholderJson(ph) ==
    [placeholder_id |-> ph.placeholder_id,
     layout_index |-> ph.layout_index,
     layout_name |-> ph.layout_name,
     type |-> ph.placeholder_type]

\* the previews go out as they are
build_prompt_whole_preview(elements, placeholders) ==
    [elements_json |-> [i \in 1..Len(elements) |->
                          [ElementJson(elements[i]) EXCEPT
                              !.text_preview = elements[i].text_preview]],
     placeholders_json |-> [i \in 1..Len(placeholders) |-> PlaceholderJson(placeholders[i])]]

\* _build_mapping_prompt: the prompt is fixed text around json.dumps of the two
\* lists, so it is given by the two lists
build_mapping_prompt(elements, placeholders) ==
    [elements_json |-> [i \in 1..Len(elements) |-> ElementJson(elements[i])],
     placeholders_json |-> [i \in 1..Len(placeholders) |-> PlaceholderJson(placeholders[i])]]

\* json.loads(raw_output): JSONDecodeError unless the text is JSON
JsonLoads(raw) == [ok |-> raw.json, value |-> raw.value]

\* the references are not checked
ValidateParsedSchemaOnly(raw, element_ids, placeholder_ids) ==
    IF ~SchemaValid(JsonLoads(raw).value)
      THEN [outcome |-> "LLMValidationError", stages |-> <<"json", "schema">>,
            raw_output |-> raw.text, mapping |-> Null]
      ELSE [outcome |-> "ok", stages |-> <<"json", "schema">>,
            raw_output |-> raw.text, mapping |-> raw.text]

\* the validation stages call_llm_for_mapping runs after json.loads succeeded
ValidateParsed(raw, element_ids, placeholder_ids) ==
    LET doc == JsonLoads(raw).value IN
    IF ~SchemaValid(doc)
      THEN [outcome |-> "LLMValidationError", stages |-> <<"json", "schema">>,
            raw_output |-> raw.text, mapping |-> Null]
    ELSE IF validate_mapping_against_inputs(doc, element_ids, placeholder_ids) # <<>>
      THEN [outcome |-> "LLMValidationError", stages |-> <<"json", "schema", "reference">>,
            raw_output |-> raw.text, mapping |-> Null]
    ELSE [outcome |-> "ok", stages |-> <<"json", "schema", "reference">>,
          raw_output |-> raw.text, mapping |-> raw.text]

\* the schema check runs on whatever json.loads left behind
call_llm_keeps_validating(raw, element_ids, placeholder_ids) ==
    ValidateParsed(raw, element_ids, placeholder_ids)

\* call_llm_for_mapping once the provider has answered raw: the stages it ran,
\* in order, and what it returned or raised
call_llm_for_mapping(raw, element_ids, placeholder_ids) ==
    IF ~JsonLoads(raw).ok
      THEN [outcome |-> "LLMValidationError", stages |-> <<"json">>,
            raw_output |-> raw.text, mapping |-> Null]
      ELSE ValidateParsed(raw, element_ids, placeholder_ids)

NoCall == [outcome |-> "none", stages |-> <<>>, raw_output |-> Null, mapping |-> Null]


\* ------------------------------------------------- services/rebuild_service.py
\* element_id = f"slide_{slide_idx}_shape_{shape.shape_id}"
ElementId(slide_idx, shape_id) ==
    "slide_" \o ToString(slide_idx) \o "_shape_" \o ToString(shape_id)

\* the slide indexes and shape ids an element id may spell
IdSlides == 0..1
IdShapes == {4, 7, 9, 999}

\* parts = id.split("_"); int(parts[1]); int(parts[3])
ParseElementId(id) ==
    IF \E si \in IdSlides, sh \in IdShapes : ElementId(si, sh) = id
      THEN LET p == CHOOSE q \in IdSlides \X IdShapes : ElementId(q[1], q[2]) = id
           IN  [ok |-> TRUE, slide_idx |-> p[1], shape_id |-> p[2]]
      ELSE [ok |-> FALSE, slide_idx |-> 0, shape_id |-> 0]

\* ph_idx or shape.shape_id
PhKey(ph_idx, shape_id) == IF ph_idx # 0 THEN ph_idx ELSE shape_id

\* f"layout_{layout_idx}_ph_{ph_idx or shape.shape_id}"
PlaceholderId(layout_idx, ph_idx, shape_id) ==
    "layout_" \o ToString(layout_idx) \o "_ph_" \o ToString(PhKey(ph_idx, shape_id))

\* shape_lookup.get(src_slide_idx, {}).get(src_shape_id), None as <<>>
SourceShape(deck, slide_idx, shape_id) ==
    IF slide_idx + 1 \in 1..Len(deck)
      THEN LET shapes == deck[slide_idx + 1]
               hits == {i \in 1..Len(shapes) : shapes[i].shape_id = shape_id}
           IN  IF hits = {} THEN <<>>
               ELSE <<shapes[CHOOSE i \in hits : \A j \in hits : j <= i]>>
      ELSE <<>>

\* "for shape in slide.shapes": one DeckElement per shape, in the slide's order
RECURSIVE ParseShapes(_, _)
ParseShapes(slide_idx, shapes) ==
    IF shapes = <<>> THEN <<>>
    ELSE <<[element_id |-> ElementId(slide_idx, Head(shapes).shape_id),
            slide_index |-> slide_idx]>>
         \o ParseShapes(slide_idx, Tail(shapes))

\* "for slide_idx, slide in enumerate(prs.slides)", from slide_idx on
RECURSIVE ParseSlides(_, _)
ParseSlides(slide_idx, slides) ==
    IF slides = <<>> THEN <<>>
    ELSE ParseShapes(slide_idx, Head(slides)) \o ParseSlides(slide_idx + 1, Tail(slides))

\* the slides are counted from 1
parse_deck_from_one(deck) ==
    [elements |-> ParseSlides(1, deck), slide_count |-> Len(deck)]

\* parse_deck_elements: the DeckElementList of a deck that loaded
parse_deck_elements(deck) ==
    [elements |-> ParseSlides(0, deck), slide_count |-> Len(deck)]

\* template_prs.slides.add_slide(layout): the new slide gets a copy of each
\* placeholder of the layout, with the layout's idx, a shape id counted from 2
\* on the new slide, and a text frame of one empty paragraph
AddSlide(layout_idx, layout) ==
    [layout_idx |-> layout_idx,
     placeholders |-> [k \in 1..Len(layout) |->
                         [idx |-> layout[k].idx, shape_id |-> k + 1,
                          paragraphs |-> <<"">>, source |-> Null]]]

\* ph_lookup.get(target_placeholder_id): the position of the placeholder on the
\* new slide, 0 for None; a later placeholder with the same id wins
PhLookup(slide, target_placeholder_id) ==
    LET hits == {k \in 1..Len(slide.placeholders) :
                   PlaceholderId(slide.layout_idx, slide.placeholders[k].idx,
                                 slide.placeholders[k].shape_id) = target_placeholder_id}
    IN  IF hits = {} THEN 0 ELSE CHOOSE k \in hits : \A j \in hits : j <= k

\* the loop of _copy_shape_content over the source paragraphs, from para_idx on:
\* add_run() adds a run to paragraph 0 and no paragraph, so the paragraph
\* written is paragraphs[min(para_idx, len(paragraphs) - 1)]
RECURSIVE CopyParagraphs(_, _, _)
CopyParagraphs(src, para_idx, target) ==
    IF para_idx >= Len(src) THEN target
    ELSE LET last == Len(target) - 1
             at == (IF para_idx < last THEN para_idx ELSE last) + 1
         IN  CopyParagraphs(src, para_idx + 1, [target EXCEPT ![at] = src[para_idx + 1]])

\* _copy_shape_content: the paragraphs of the target after the copy
copy_shape_content(source_shape, target_paragraphs) ==
    IF source_shape.has_text_frame
      THEN CopyParagraphs(source_shape.paragraphs, 0, <<Head(target_paragraphs)>>)
      ELSE target_paragraphs

NewRebuildResult ==
    [slides_created |-> 0, elements_mapped |-> 0, elements_skipped |-> 0,
     warnings |-> <<>>, errors |-> <<>>]

\* a per-element problem is reported as an error
WarnAsError(st, kind, id) ==
    [st EXCEPT !.result.errors = Append(@, kind)]

Warn(st, kind, id) ==
    [st EXCEPT !.result.warnings = Append(@, [kind |-> kind, id |-> id])]

\* every element mapping is counted as mapped
ApplyElementCountsAll(st, deck, em) ==
    [st EXCEPT !.result.elements_mapped = @ + 1]

\* the body of "for em in slide_mapping.element_mappings", on the slide added
\* last: st holds the RebuildResult and the slides of template_prs
ApplyElement(st, deck, em) ==
    IF em.action = "SKIP"
      THEN [st EXCEPT !.result.elements_skipped = @ + 1]
    ELSE IF em.action # "MAP" THEN st
    ELSE LET id == ParseElementId(em.source_element_id)
             found == SourceShape(deck, id.slide_idx, id.shape_id)
             n == Len(st.slides)
             k == PhLookup(st.slides[n], em.target_placeholder_id)
         IN  IF ~id.ok THEN Warn(st, "Invalid element ID", em.source_element_id)
             ELSE IF found = <<>>
               THEN Warn(st, "Source shape not found", em.source_element_id)
             ELSE IF k = 0
               THEN Warn(st, "Target placeholder not found", em.target_placeholder_id)
             ELSE [st EXCEPT
                     !.slides[n].placeholders[k].paragraphs =
                         copy_shape_content(found[1], @),
                     !.slides[n].placeholders[k].source = em.source_element_id,
                     !.result.elements_mapped = @ + 1]

RECURSIVE ApplyElements(_, _, _)
ApplyElements(st, deck, ems) ==
    IF ems = <<>> THEN st
    ELSE ApplyElements(ApplyElement(st, deck, Head(ems)), deck, Tail(ems))

\* the body of "for slide_mapping in mapping.slide_mappings"
ApplySlide(st, deck, layouts, sm) ==
    LET last == Len(layouts) - 1
        layout_idx == IF sm.layout_index < last THEN sm.layout_index ELSE last
        added == [st EXCEPT
                    !.slides = Append(@, AddSlide(layout_idx, layouts[layout_idx + 1])),
                    !.result.slides_created = @ + 1]
    IN  ApplyElements(added, deck, sm.element_mappings)

RECURSIVE ApplySlides(_, _, _, _)
ApplySlides(st, deck, layouts, sms) ==
    IF sms = <<>> THEN st
    ELSE ApplySlides(ApplySlide(st, deck, layouts, Head(sms)), deck, layouts, Tail(sms))

\* the layouts are not looked at: the template is saved as it is
apply_mapping_ignores_layouts(deck, template, doc) ==
    [result |-> NewRebuildResult, slides |-> template.slides, saved |-> TRUE]

\* apply_mapping on a deck and a template that loaded: the RebuildResult and
\* the slides of the presentation it saves (none when it returns before saving)
apply_mapping(deck, template, doc) ==
    IF template.layouts = <<>>
      THEN [result |-> [NewRebuildResult EXCEPT !.errors = <<"Template has no layouts">>],
            slides |-> <<>>, saved |-> FALSE]
      ELSE LET st == ApplySlides([result |-> NewRebuildResult, slides |-> template.slides],
                                 deck, template.layouts, doc.slide_mappings)
           IN  [result |-> st.result, slides |-> st.slides, saved |-> TRUE]

\* ------------------------------------------------------ golden_set/runner.py
\* a JSON value: a scalar, a dict (its items in insertion order, each a key and
\* a value) or a list (its items in order, keys unused)
Scalar(x) == [t |-> "scalar", s |-> x, items |-> <<>>]
JDict(items) == [t |-> "dict", s |-> "", items |-> items]
JList(items) == [t |-> "list", s |-> "", items |-> items]
KV(key, value) == [k |-> key, v |-> value]
Item(value) == [k |-> "", v |-> value]

forbidden_fields ==
    {"generated_text", "new_content", "modified_text", "ai_content", "llm_output"}

\* key.lower(), on the keys the documents below use
Lower(key) ==
    CASE key = "New_Content" -> "new_content"
      [] OTHER -> key

\* current_path = f"{path}.{key}" if path else key
CurrentPath(path, key) == IF path = "" THEN key ELSE path \o "." \o key

\* check_dict(d, path), d given by its items: the violations it appends, in order
RECURSIVE check_dict(_, _)
RECURSIVE check_list(_, _, _)
check_dict(items, path) ==
    IF items = <<>> THEN <<>>
    ELSE LET key == Head(items).k
             value == Head(items).v
             current_path == CurrentPath(path, key)
         IN  (IF Lower(key) \in forbidden_fields
                THEN <<"Forbidden field found: " \o current_path>>
                ELSE <<>>)
             \o (IF value.t = "dict" THEN check_dict(value.items, current_path)
                 ELSE IF value.t = "list" THEN check_list(value.items, current_path, 0)
                 ELSE <<>>)
             \o check_dict(Tail(items), path)

\* for i, item in enumerate(value): only the items that are dicts are entered
check_list(lst, current_path, i) ==
    IF lst = <<>> THEN <<>>
    ELSE (IF Head(lst).v.t = "dict"
            THEN check_dict(Head(lst).v.items,
                            current_path \o "[" \o ToString(i) \o "]")
            ELSE <<>>)
         \o check_list(Tail(lst), current_path, i + 1)

check_no_gen_policy(mapping_json) ==
    LET violations == check_dict(mapping_json.items, "")
    IN  [ok |-> Len(violations) = 0, violations |-> violations]

\* ------------------------------------------------------------------- state
VARIABLES
    cfg,            \* what the task finds around it: the job row, its options, the
                    \* deck's source file, the published template version, the
                    \* provider's API key, the worker pool's concurrency, and the
                    \* template versions a run may find published
    status,         \* RebuildJob.status
    progress,       \* RebuildJob.progress
    error_message,  \* length of RebuildJob.error_message, 0 when it is None
    events,         \* JobEvent rows of the job: per delivery, in insertion order
    artifacts,      \* JobArtifact rows of the job: how many rows per (type, key)
    blobs,          \* the blob store under jobs/{job_id}/
    pc,             \* per delivery: where its task is
    retries,        \* per delivery: self.request.retries
    result,         \* per delivery: the status the task returned
    mapping,        \* per delivery: the local variable mapping
    exc,            \* per delivery: length of str(e) of the exception in flight
    did,            \* per delivery: the pipeline operations the current run invoked
    gate,           \* per delivery: what the idempotence check of the current run saw
    llm,            \* per delivery: the last call_llm_for_mapping of the current run
    runs,           \* per delivery: how many times the task body has been started
    oracleCalls,    \* provider calls made for the job
    oracleValid,    \* provider answers that passed every validation stage
    faults,         \* transient exceptions so far
    applied,        \* per delivery: the RebuildResult apply_mapping returned in the
                    \* current run (the task's local variable result)
    jobs,           \* several jobs side by side: per job id its record, its events,
                    \* its artifacts and where its task is, and the blob store
    fn              \* a function of the pipeline called on its own, outside the
                    \* task: its name, its arguments and what it returned

vars == <<cfg, status, progress, error_message, events, artifacts, blobs, pc, retries,
          result, mapping, exc, did, gate, llm, runs, oracleCalls, oracleValid, faults,
          applied, jobs, fn>>

jobVars == <<status, progress, error_message>>
storeVars == <<artifacts, blobs>>
oracleVars == <<llm, oracleCalls, oracleValid>>
taskVars == <<retries, result, mapping, gate, runs>>

OutputKey == "jobs/{job_id}/output.pptx"
MappingKey == "jobs/{job_id}/mapping.json"
FailedKey == "jobs/{job_id}/failed_mapping.json"
BlobKeys == {OutputKey, MappingKey, FailedKey}

NoBlob == [kind |-> "absent", body |-> ""]

\* artifact rows are told apart by (artifact_type, s3_key)
OutputDeckRow == <<"OUTPUT_DECK", OutputKey>>
MappingRow == <<"MAPPING_JSON", MappingKey>>
FailedMappingRow == <<"MAPPING_JSON", FailedKey>>
ArtifactRows == {OutputDeckRow, MappingRow, FailedMappingRow}

Ops == {"download", "parse_deck_elements", "parse_template_placeholders",
        "call_llm_for_mapping", "apply_mapping", "upload_output"}

NoGate == [skip |-> FALSE, output_exists |-> FALSE, status |-> "-"]

\* apply_mapping has not been called in the run
NoApply ==
    [called |-> FALSE, template |-> Null,
     result |-> NewRebuildResult, saved |-> FALSE]

\* ---- several jobs: every table row carries its job_id, every blob key is
\* built from it
JobIds == {"job-a", "job-b"}
FileNames == {"output.pptx", "mapping.json", "failed_mapping.json"}

\* one key for all jobs
S3KeyShared(job_id, filename) == "jobs/" \o filename

\* f"jobs/{job_id}/output.pptx", f"jobs/{job_id}/mapping.json",
\* f"jobs/{job_id}/failed_mapping.json"
S3Key(job_id, filename) == "jobs/" \o job_id \o "/" \o filename

S3Keys == {S3Key(j, f) : j \in JobIds, f \in FileNames}

\* the jobs as the API created them: QUEUED, nothing stored, no task started
QueuedJobs ==
    [rows |-> [j \in JobIds |-> [status |-> "QUEUED", progress |-> 0, error_message |-> 0]],
     events |-> [j \in JobIds |-> <<>>],
     artifacts |-> [j \in JobIds |-> <<>>],
     objects |-> [k \in S3Keys |-> ""],
     task |-> [j \in JobIds |-> [pc |-> "queued", retries |-> 0]],
     faults |-> 0]

\* no function is called on its own while the task runs
NoFn == [name |-> "none"]

\* storage.file_exists_sync(key)
file_exists_sync(key) == blobs[key] # NoBlob

\* a delivery is in hand from the moment a worker takes it until its task
\* returns for good; a pending retry keeps it in hand
InHand(w) == pc[w] \notin {"idle", "done"}
Active == {w \in Deliveries : InHand(w)}

Init ==
    /\ cfg \in [job_exists : BOOLEAN, dry_run : BOOLEAN, has_source : BOOLEAN,
                has_published : BOOLEAN, key_missing : BOOLEAN, concurrency : {1},
                templates : {JobTemplates}]
    /\ status = "QUEUED"
    /\ progress = 0
    /\ error_message = 0
    /\ events = [w \in Deliveries |-> <<>>]
    /\ artifacts = [r \in ArtifactRows |-> 0]
    /\ blobs = [k \in BlobKeys |-> NoBlob]
    /\ pc = [w \in Deliveries |-> "idle"]
    /\ retries = [w \in Deliveries |-> 0]
    /\ result = [w \in Deliveries |-> Null]
    /\ mapping = [w \in Deliveries |-> Null]
    /\ exc = [w \in Deliveries |-> 0]
    /\ did = [w \in Deliveries |-> {}]
    /\ gate = [w \in Deliveries |-> NoGate]
    /\ llm = [w \in Deliveries |-> NoCall]
    /\ runs = [w \in Deliveries |-> 0]
    /\ oracleCalls = 0
    /\ oracleValid = 0
    /\ faults = 0
    /\ applied = [w \in Deliveries |-> NoApply]
    /\ jobs = QueuedJobs
    /\ fn = NoFn

\* the same, on a worker pool that runs two tasks at a time, with one template
\* version published
InitConcurrent ==
    /\ cfg \in [job_exists : BOOLEAN, dry_run : BOOLEAN, has_source : BOOLEAN,
                has_published : BOOLEAN, key_missing : BOOLEAN, concurrency : {2},
                templates : {{"two content"}}]
    /\ status = "QUEUED"
    /\ progress = 0
    /\ error_message = 0
    /\ events = [w \in Deliveries |-> <<>>]
    /\ artifacts = [r \in ArtifactRows |-> 0]
    /\ blobs = [k \in BlobKeys |-> NoBlob]
    /\ pc = [w \in Deliveries |-> "idle"]
    /\ retries = [w \in Deliveries |-> 0]
    /\ result = [w \in Deliveries |-> Null]
    /\ mapping = [w \in Deliveries |-> Null]
    /\ exc = [w \in Deliveries |-> 0]
    /\ did = [w \in Deliveries |-> {}]
    /\ gate = [w \in Deliveries |-> NoGate]
    /\ llm = [w \in Deliveries |-> NoCall]
    /\ runs = [w \in Deliveries |-> 0]
    /\ oracleCalls = 0
    /\ oracleValid = 0
    /\ faults = 0
    /\ applied = [w \in Deliveries |-> NoApply]
    /\ jobs = QueuedJobs
    /\ fn = NoFn

\* ------------------------------------------------------------ small helpers
Goto(w, l) == pc' = [pc EXCEPT ![w] = l]

\* the new row goes in front of the log
EmitInFront(w, event_type) == events' = [events EXCEPT ![w] = <<event_type>> \o @]

\* emit_event: one more JobEvent row
Emit(w, event_type) == events' = [events EXCEPT ![w] = Append(@, event_type)]

Emit2(w, t1, t2) == events' = [events EXCEPT ![w] = Append(Append(@, t1), t2)]

Did(w, op) == did' = [did EXCEPT ![w] = @ \cup {op}]

\* _add_artifact: one more row, never an upsert
AddArtifact(row) == artifacts' = [artifacts EXCEPT ![row] = @ + 1]

\* storage.upload_bytes_sync
Put(key, blob) == blobs' = [blobs EXCEPT ![key] = blob]

\* an exception of the task's own making leaves the try block
Raise(w, n) ==
    /\ pc' = [pc EXCEPT ![w] = "except"]
    /\ exc' = [exc EXCEPT ![w] = n]

\* a transient exception (storage, database, provider, parser) leaves the try block
Throw(w) ==
    /\ faults < MaxFaults
    /\ faults' = faults + 1
    /\ \E n \in ExcLens : Raise(w, n)

\* the oracle's answer is rejected: raise ValueError(f"LLM mapping failed: {e}")
Reject(w, n) ==
    /\ faults < MaxFaults
    /\ faults' = faults + 1
    /\ Raise(w, n)

Return(w, st) ==
    /\ pc' = [pc EXCEPT ![w] = "done"]
    /\ result' = [result EXCEPT ![w] = st]


\* ---------------------------------------------- worker.py: rebuild_deck_task
\* the broker hands the message to a free worker process
Deliver(w) ==
    /\ pc[w] = "idle"
    /\ \A v \in Deliveries : v < w => pc[v] # "idle"
    /\ Cardinality(Active) < cfg.concurrency
    /\ Goto(w, "load")
    /\ runs' = [runs EXCEPT ![w] = 1]
    /\ UNCHANGED <<cfg, jobVars, events, storeVars, retries, result, mapping, exc, did,
                   gate, oracleVars, faults>>
    /\ UNCHANGED <<fn, applied, jobs>>

\* the check looks at the job's status only
GateSkipsStatusOnly(st, output_exists) == st = "SUCCEEDED"

\* if job.status == "SUCCEEDED" or storage.file_exists_sync(output_s3_key)
GateSkips(st, output_exists) == st = "SUCCEEDED" \/ output_exists

\* STEP 1: load the job, then the idempotence check
Load(w) ==
    /\ pc[w] = "load"
    /\ \/ \* the query or the storage probe raises
          /\ Throw(w)
          /\ UNCHANGED <<result, gate>>
       \/ \* if not job: return FAILED, "Job not found"
          /\ ~cfg.job_exists
          /\ Return(w, "FAILED")
          /\ UNCHANGED <<exc, gate, faults>>
       \/ /\ cfg.job_exists
          /\ GateSkips(status, file_exists_sync(OutputKey))
          /\ Return(w, "SUCCEEDED")
          /\ gate' = [gate EXCEPT ![w] = [skip |-> TRUE,
                                          output_exists |-> file_exists_sync(OutputKey),
                                          status |-> status]]
          /\ UNCHANGED <<exc, faults>>
       \/ /\ cfg.job_exists
          /\ ~GateSkips(status, file_exists_sync(OutputKey))
          /\ Goto(w, "check")
          /\ gate' = [gate EXCEPT ![w] = [skip |-> FALSE,
                                          output_exists |-> file_exists_sync(OutputKey),
                                          status |-> status]]
          /\ UNCHANGED <<result, exc, faults>>
    /\ UNCHANGED <<cfg, jobVars, events, storeVars, retries, mapping, did, runs, oracleVars>>
    /\ UNCHANGED <<fn, applied, jobs>>

\* PROD CHECK (secrets), then "Update status to RUNNING"
Check(w) ==
    /\ pc[w] = "check"
    /\ \/ \* the secret is missing: FAILED event, FAILED status, return without retry
          /\ cfg.key_missing
          /\ \/ /\ Emit(w, "FAILED")
                /\ status' = "FAILED"
                /\ error_message' = LenKeyMissing
                /\ Return(w, "FAILED")
                /\ UNCHANGED <<progress, exc, faults>>
             \/ \* emit_event raises
                /\ Throw(w)
                /\ UNCHANGED <<jobVars, events, result>>
             \/ \* the commit of the status raises, after the event went in
                /\ Emit(w, "FAILED")
                /\ Throw(w)
                /\ UNCHANGED <<jobVars, result>>
       \/ /\ ~cfg.key_missing
          /\ \/ /\ status' = "RUNNING"
                /\ progress' = 5
                /\ Emit(w, "STARTED")
                /\ Goto(w, "prereq")
                /\ UNCHANGED <<error_message, result, exc, faults>>
             \/ \* the commit raises
                /\ Throw(w)
                /\ UNCHANGED <<jobVars, events, result>>
             \/ \* emit_event raises, after the commit
                /\ status' = "RUNNING"
                /\ progress' = 5
                /\ Throw(w)
                /\ UNCHANGED <<error_message, events, result>>
    /\ UNCHANGED <<cfg, storeVars, retries, mapping, did, gate, runs, oracleVars>>
    /\ UNCHANGED <<fn, applied, jobs>>

\* the deck's source file and the template's published version must exist
Prereq(w) ==
    /\ pc[w] = "prereq"
    /\ \/ /\ ~cfg.has_source
          /\ Raise(w, LenNoSource)
          /\ UNCHANGED <<progress, faults>>
       \/ /\ cfg.has_source
          /\ ~cfg.has_published
          /\ Raise(w, LenNoPublished)
          /\ UNCHANGED <<progress, faults>>
       \/ /\ cfg.has_source
          /\ cfg.has_published
          /\ \/ /\ progress' = 10
                /\ Goto(w, "download")
                /\ UNCHANGED <<exc, faults>>
             \/ \* a query or the commit raises
                /\ Throw(w)
                /\ UNCHANGED progress
    /\ UNCHANGED <<cfg, status, error_message, events, storeVars, taskVars, did, oracleVars>>
    /\ UNCHANGED <<fn, applied, jobs>>

\* STEP 2: download the deck and the template
Download(w) ==
    /\ pc[w] = "download"
    /\ \/ /\ Emit2(w, "PROGRESS", "DOWNLOADED")
          /\ Did(w, "download")
          /\ progress' = 25
          /\ Goto(w, "parse_deck")
          /\ UNCHANGED <<exc, faults>>
       \/ \* emit_event(PROGRESS) raises
          /\ Throw(w)
          /\ UNCHANGED <<events, did, progress>>
       \/ \* a download raises, a file is missing afterwards, or the commit raises
          /\ Emit(w, "PROGRESS")
          /\ Did(w, "download")
          /\ Throw(w)
          /\ UNCHANGED progress
       \/ \* emit_event(DOWNLOADED) raises
          /\ Emit(w, "PROGRESS")
          /\ Did(w, "download")
          /\ progress' = 25
          /\ Throw(w)
    /\ UNCHANGED <<cfg, status, error_message, storeVars, taskVars, oracleVars>>
    /\ UNCHANGED <<fn, applied, jobs>>

\* STEP 3: parse_deck_elements
ParseDeck(w) ==
    /\ pc[w] = "parse_deck"
    /\ \/ /\ Emit2(w, "PROGRESS", "PARSED_DECK")
          /\ Did(w, "parse_deck_elements")
          /\ progress' = 35
          /\ Goto(w, "parse_template")
          /\ UNCHANGED <<exc, faults>>
       \/ /\ Throw(w)
          /\ UNCHANGED <<events, did, progress>>
       \/ \* the parser or the commit raises
          /\ Emit(w, "PROGRESS")
          /\ Did(w, "parse_deck_elements")
          /\ Throw(w)
          /\ UNCHANGED progress
       \/ /\ Emit(w, "PROGRESS")
          /\ Did(w, "parse_deck_elements")
          /\ progress' = 35
          /\ Throw(w)
    /\ UNCHANGED <<cfg, status, error_message, storeVars, taskVars, oracleVars>>
    /\ UNCHANGED <<fn, applied, jobs>>

\* STEP 4: parse_template_placeholders
ParseTemplate(w) ==
    /\ pc[w] = "parse_template"
    /\ \/ /\ Emit2(w, "PROGRESS", "PARSED_TEMPLATE")
          /\ Did(w, "parse_template_placeholders")
          /\ progress' = 45
          /\ Goto(w, "reuse")
          /\ UNCHANGED <<exc, faults>>
       \/ /\ Throw(w)
          /\ UNCHANGED <<events, did, progress>>
       \/ /\ Emit(w, "PROGRESS")
          /\ Did(w, "parse_template_placeholders")
          /\ Throw(w)
          /\ UNCHANGED progress
       \/ /\ Emit(w, "PROGRESS")
          /\ Did(w, "parse_template_placeholders")
          /\ progress' = 45
          /\ Throw(w)
    /\ UNCHANGED <<cfg, status, error_message, storeVars, taskVars, oracleVars>>
    /\ UNCHANGED <<fn, applied, jobs>>

\* the try block of the reuse path: "from models.sql_models import MappingResult"
\* names a class that module does not define, the ImportError is caught by
\* "except Exception" and mapping is None again
LoadExistingMapping(blob) == Null

\* STEP 5, first half: "IDEMPOTENCE: Check if mapping exists"
Reuse(w) ==
    /\ pc[w] = "reuse"
    /\ \/ /\ ~file_exists_sync(MappingKey)
          /\ mapping' = [mapping EXCEPT ![w] = Null]
          /\ Goto(w, "llm")
          /\ UNCHANGED <<events, did, exc, faults>>
       \/ /\ file_exists_sync(MappingKey)
          /\ mapping' = [mapping EXCEPT ![w] = LoadExistingMapping(blobs[MappingKey])]
          /\ Emit(w, "PROGRESS")
          /\ Did(w, "download")
          /\ Goto(w, IF LoadExistingMapping(blobs[MappingKey]) = Null THEN "llm" ELSE "mapped")
          /\ UNCHANGED <<exc, faults>>
       \/ \* the probe raises, or emit_event when the mapping exists
          /\ Throw(w)
          /\ UNCHANGED <<events, did, mapping>>
       \/ \* the download of mapping.json raises
          /\ file_exists_sync(MappingKey)
          /\ Emit(w, "PROGRESS")
          /\ Did(w, "download")
          /\ Throw(w)
          /\ UNCHANGED mapping
    /\ UNCHANGED <<cfg, jobVars, storeVars, retries, result, gate, runs, oracleVars>>
    /\ UNCHANGED <<fn, applied, jobs>>

\* len(f"LLM mapping failed: {e}"): the pydantic and reference reports are long
LLMErrLen(r) == IF Len(r.stages) = 1 THEN 60 ELSE 650

\* STEP 5, second half: the oracle call and what the task does with a rejection
CallLLM(w) ==
    /\ pc[w] = "llm"
    /\ \/ \* emit_event(PROGRESS) raises
          /\ Throw(w)
          /\ UNCHANGED <<events, did, mapping, storeVars, oracleVars>>
       \/ \* LLMProviderError: the provider call fails
          /\ Emit(w, "PROGRESS")
          /\ Did(w, "call_llm_for_mapping")
          /\ oracleCalls' = oracleCalls + 1
          /\ Throw(w)
          /\ UNCHANGED <<mapping, storeVars, llm, oracleValid>>
       \/ \E raw \in RawOutputs :
            LET r == call_llm_for_mapping(raw, ElementIds, PlaceholderIds) IN
            /\ Emit(w, "PROGRESS")
            /\ Did(w, "call_llm_for_mapping")
            /\ oracleCalls' = oracleCalls + 1
            /\ llm' = [llm EXCEPT ![w] = r]
            /\ \/ /\ r.outcome = "ok"
                  /\ oracleValid' = oracleValid + 1
                  /\ mapping' = [mapping EXCEPT ![w] = r.mapping]
                  /\ Goto(w, "save_mapping")
                  /\ UNCHANGED <<storeVars, exc, faults>>
               \/ \* except LLMValidationError with a raw output: keep it, then raise
                  /\ r.outcome = "LLMValidationError"
                  /\ r.raw_output # ""
                  /\ Put(FailedKey, [kind |-> "raw oracle output", body |-> r.raw_output])
                  /\ AddArtifact(FailedMappingRow)
                  /\ Reject(w, LLMErrLen(r))
                  /\ UNCHANGED <<mapping, oracleValid>>
               \/ \* "if e.raw_output:" is false for the empty answer
                  /\ r.outcome = "LLMValidationError"
                  /\ r.raw_output = ""
                  /\ Reject(w, LLMErrLen(r))
                  /\ UNCHANGED <<mapping, storeVars, oracleValid>>
               \/ \* the upload of failed_mapping.json raises
                  /\ r.outcome = "LLMValidationError"
                  /\ r.raw_output # ""
                  /\ Throw(w)
                  /\ UNCHANGED <<mapping, storeVars, oracleValid>>
               \/ \* _add_artifact raises after the upload
                  /\ r.outcome = "LLMValidationError"
                  /\ r.raw_output # ""
                  /\ Put(FailedKey, [kind |-> "raw oracle output", body |-> r.raw_output])
                  /\ Throw(w)
                  /\ UNCHANGED <<mapping, artifacts, oracleValid>>
    /\ UNCHANGED <<cfg, jobVars, retries, result, gate, runs>>
    /\ UNCHANGED <<fn, applied, jobs>>

\* "Save mapping as artifact"
SaveMapping(w) ==
    /\ pc[w] = "save_mapping"
    /\ \/ /\ Put(MappingKey, [kind |-> "MappingResult json", body |-> mapping[w]])
          /\ AddArtifact(MappingRow)
          /\ Goto(w, "mapped")
          /\ UNCHANGED <<exc, faults>>
       \/ \* the upload raises
          /\ Throw(w)
          /\ UNCHANGED storeVars
       \/ \* _add_artifact raises after the upload
          /\ Put(MappingKey, [kind |-> "MappingResult json", body |-> mapping[w]])
          /\ Throw(w)
          /\ UNCHANGED artifacts
    /\ UNCHANGED <<cfg, jobVars, events, taskVars, did, oracleVars>>
    /\ UNCHANGED <<fn, applied, jobs>>

\* progress 60 and the LLM_MAPPING event
Mapped(w) ==
    /\ pc[w] = "mapped"
    /\ \/ /\ progress' = 60
          /\ Emit(w, "LLM_MAPPING")
          /\ Goto(w, "apply")
          /\ UNCHANGED <<exc, faults>>
       \/ /\ Throw(w)
          /\ UNCHANGED <<progress, events>>
       \/ /\ progress' = 60
          /\ Throw(w)
          /\ UNCHANGED events
    /\ UNCHANGED <<cfg, status, error_message, storeVars, taskVars, did, oracleVars>>
    /\ UNCHANGED <<fn, applied, jobs>>


\* the option is never read
DryRunIgnored == FALSE

\* dry_run = job.options.get("dry_run", False) if job.options else False
DryRun == cfg.dry_run

\* the MappingResult the local variable mapping holds
MappingResultOf(text) == (CHOOSE raw \in RawOutputs : raw.text = text).value

\* the answers call_llm_for_mapping returns as a mapping
AcceptedAnswers ==
    {raw.text : raw \in {x \in RawOutputs :
        call_llm_for_mapping(x, ElementIds, PlaceholderIds).outcome = "ok"}}

\* apply_mapping(deck_path, template_path, mapping, output_dir), for each
\* template version and mapping the task may hold
ApplyJob ==
    [version \in JobTemplates, text \in AcceptedAnswers |->
        apply_mapping(JobDeck, TemplateFile(version), MappingResultOf(text))]

\* the template version of the run and result, as the task holds them after the call
Applied(template, r) ==
    [called |-> TRUE, template |-> template, result |-> r.result, saved |-> r.saved]

\* apply_mapping's own "except Exception": the load or the save raised, the
\* message is appended to errors and output_path stays None
ApplyCaught(template, r) ==
    [called |-> TRUE, template |-> template,
     result |-> [r.result EXCEPT !.errors = <<"str(e)">>], saved |-> FALSE]

\* STEP 6: "DRY RUN stops here", else apply_mapping
Apply(w) ==
    /\ pc[w] = "apply"
    /\ \/ /\ DryRun
          /\ \/ /\ status' = "SUCCEEDED"
                /\ progress' = 100
                /\ Emit(w, "COMPLETED")
                /\ Return(w, "SUCCEEDED")
                /\ UNCHANGED <<exc, faults>>
             \/ \* the commit raises
                /\ Throw(w)
                /\ UNCHANGED <<status, progress, events, result>>
             \/ \* emit_event(COMPLETED) raises, after the commit
                /\ status' = "SUCCEEDED"
                /\ progress' = 100
                /\ Throw(w)
                /\ UNCHANGED <<events, result>>
          /\ UNCHANGED <<did, applied>>
       \/ /\ ~DryRun
          /\ \/ \* emit_event(PROGRESS) raises
                /\ Throw(w)
                /\ UNCHANGED <<events, did, progress, applied>>
             \/ \E template \in cfg.templates :
                  LET r == ApplyJob[template, mapping[w]] IN
                  /\ Did(w, "apply_mapping")
                  /\ \/ \* if result.errors / if not result.output_path: raise ValueError
                        /\ r.result.errors # <<>> \/ ~r.saved
                        /\ applied' = [applied EXCEPT ![w] = Applied(template, r)]
                        /\ Emit(w, "PROGRESS")
                        /\ Reject(w, IF r.result.errors # <<>> THEN LenApplyErrors
                                     ELSE LenNoOutput)
                        /\ UNCHANGED progress
                     \/ \* the load or the save raised inside apply_mapping
                        /\ r.saved
                        /\ applied' = [applied EXCEPT ![w] = ApplyCaught(template, r)]
                        /\ Emit(w, "PROGRESS")
                        /\ Throw(w)
                        /\ UNCHANGED progress
                     \/ /\ r.result.errors = <<>> /\ r.saved
                        /\ applied' = [applied EXCEPT ![w] = Applied(template, r)]
                        /\ Emit2(w, "PROGRESS", "MAPPING_APPLIED")
                        /\ progress' = 85
                        /\ Goto(w, "upload")
                        /\ UNCHANGED <<exc, faults>>
                     \/ \* the commit raises
                        /\ r.result.errors = <<>> /\ r.saved
                        /\ applied' = [applied EXCEPT ![w] = Applied(template, r)]
                        /\ Emit(w, "PROGRESS")
                        /\ Throw(w)
                        /\ UNCHANGED progress
                     \/ \* emit_event(MAPPING_APPLIED) raises
                        /\ r.result.errors = <<>> /\ r.saved
                        /\ applied' = [applied EXCEPT ![w] = Applied(template, r)]
                        /\ Emit(w, "PROGRESS")
                        /\ progress' = 85
                        /\ Throw(w)
          /\ UNCHANGED <<status, result>>
    /\ UNCHANGED <<cfg, error_message, storeVars, retries, mapping, gate, runs, oracleVars>>
    /\ UNCHANGED <<fn, jobs>>

\* a failed upload is logged and swallowed, as upload_to_r2 does
UploadSwallows(w) ==
    /\ pc[w] = "upload"
    /\ \/ /\ Emit(w, "PROGRESS")
          /\ Did(w, "upload_output")
          /\ Put(OutputKey, [kind |-> "rebuilt deck", body |-> mapping[w]])
          /\ Goto(w, "artifact")
          /\ UNCHANGED <<exc, faults>>
       \/ /\ Throw(w)
          /\ UNCHANGED <<events, did, blobs>>
       \/ /\ Emit(w, "PROGRESS")
          /\ Did(w, "upload_output")
          /\ faults < MaxFaults
          /\ faults' = faults + 1
          /\ Goto(w, "artifact")
          /\ UNCHANGED <<blobs, exc>>
    /\ UNCHANGED <<cfg, jobVars, artifacts, taskVars, oracleVars>>
    /\ UNCHANGED <<fn, applied, jobs>>

\* STEP 7: upload the output deck
Upload(w) ==
    /\ pc[w] = "upload"
    /\ \/ /\ Emit(w, "PROGRESS")
          /\ Did(w, "upload_output")
          /\ Put(OutputKey, [kind |-> "rebuilt deck", body |-> mapping[w]])
          /\ Goto(w, "artifact")
          /\ UNCHANGED <<exc, faults>>
       \/ \* emit_event(PROGRESS) raises
          /\ Throw(w)
          /\ UNCHANGED <<events, did, blobs>>
       \/ \* upload_bytes_sync raises: nothing is stored
          /\ Emit(w, "PROGRESS")
          /\ Did(w, "upload_output")
          /\ Throw(w)
          /\ UNCHANGED blobs
    /\ UNCHANGED <<cfg, jobVars, artifacts, taskVars, oracleVars>>
    /\ UNCHANGED <<fn, applied, jobs>>

\* the OUTPUT_DECK row and the UPLOADED event
Artifact(w) ==
    /\ pc[w] = "artifact"
    /\ \/ /\ AddArtifact(OutputDeckRow)
          /\ Emit(w, "UPLOADED")
          /\ Goto(w, "complete")
          /\ UNCHANGED <<exc, faults>>
       \/ \* _add_artifact raises
          /\ Throw(w)
          /\ UNCHANGED <<artifacts, events>>
       \/ \* emit_event(UPLOADED) raises
          /\ AddArtifact(OutputDeckRow)
          /\ Throw(w)
          /\ UNCHANGED events
    /\ UNCHANGED <<cfg, jobVars, blobs, taskVars, did, oracleVars>>
    /\ UNCHANGED <<fn, applied, jobs>>

\* COMPLETE: the final status write and the COMPLETED event
Complete(w) ==
    /\ pc[w] = "complete"
    /\ \/ /\ status' = "SUCCEEDED"
          /\ progress' = 100
          /\ Emit(w, "COMPLETED")
          /\ Return(w, "SUCCEEDED")
          /\ UNCHANGED <<exc, faults>>
       \/ \* the commit raises
          /\ Throw(w)
          /\ UNCHANGED <<status, progress, events, result>>
       \/ \* emit_event(COMPLETED) raises, after the commit
          /\ status' = "SUCCEEDED"
          /\ progress' = 100
          /\ Throw(w)
          /\ UNCHANGED <<events, result>>
    /\ UNCHANGED <<cfg, error_message, storeVars, retries, mapping, did, gate, runs,
                   oracleVars>>
    /\ UNCHANGED <<fn, applied, jobs>>

\* str(e), uncut
TruncateNone(n) == n

\* str(e)[:500]
Truncate(n) == IF n > ErrMax THEN ErrMax ELSE n

\* the comparison is off by one
ShouldRetryOffByOne(r) == r <= max_retries

\* if self.request.retries < self.max_retries
ShouldRetry(r) == r < max_retries

\* except Exception: mark the job FAILED, then retry or give up
Except(w) ==
    /\ pc[w] = "except"
    /\ \/ /\ cfg.job_exists
          /\ status' = "FAILED"
          /\ error_message' = Truncate(exc[w])
          /\ Emit(w, "FAILED")
          /\ UNCHANGED progress
       \/ \* "if job:" is false
          /\ ~cfg.job_exists
          /\ UNCHANGED <<jobVars, events>>
    /\ \/ /\ ShouldRetry(retries[w])
          /\ Goto(w, "retry_wait")
          /\ UNCHANGED result
       \/ /\ ~ShouldRetry(retries[w])
          /\ Return(w, "FAILED")
    /\ exc' = [exc EXCEPT ![w] = 0]
    /\ UNCHANGED <<cfg, storeVars, retries, mapping, did, gate, runs, oracleVars, faults>>
    /\ UNCHANGED <<fn, applied, jobs>>

\* self.retry(exc=e): the task body starts again, default_retry_delay later
Retry(w) ==
    /\ pc[w] = "retry_wait"
    /\ retries' = [retries EXCEPT ![w] = @ + 1]
    /\ runs' = [runs EXCEPT ![w] = @ + 1]
    /\ mapping' = [mapping EXCEPT ![w] = Null]
    /\ did' = [did EXCEPT ![w] = {}]
    /\ gate' = [gate EXCEPT ![w] = NoGate]
    /\ llm' = [llm EXCEPT ![w] = NoCall]
    /\ applied' = [applied EXCEPT ![w] = NoApply]
    /\ Goto(w, "load")
    /\ UNCHANGED <<cfg, jobVars, events, storeVars, result, exc, oracleCalls, oracleValid,
                   faults>>
    /\ UNCHANGED <<fn, jobs>>

Step(w) ==
    \/ Load(w)
    \/ Check(w)
    \/ Prereq(w)
    \/ Download(w)
    \/ ParseDeck(w)
    \/ ParseTemplate(w)
    \/ Reuse(w)
    \/ CallLLM(w)
    \/ SaveMapping(w)
    \/ Mapped(w)
    \/ Apply(w)
    \/ Upload(w)
    \/ Artifact(w)
    \/ Complete(w)
    \/ Except(w)

Next == \E w \in Deliveries : Deliver(w) \/ Step(w) \/ Retry(w)

\* one task at a time: attempts of the job follow one another
Spec == Init /\ [][Next]_vars

\* two worker processes: a second delivery may start while the first still runs
SpecConcurrent == InitConcurrent /\ [][Next]_vars

\* a started task body runs to its end, and a scheduled retry is delivered
SpecFair == Init /\ [][Next]_vars /\ \A w \in Deliveries : WF_vars(Step(w) \/ Retry(w))


\* ------------------------------------------- functions called on their own
\* the task's state; a function called on its own leaves it alone
taskState == <<cfg, status, progress, error_message, events, artifacts, blobs, pc,
               retries, result, mapping, exc, did, gate, llm, runs, oracleCalls,
               oracleValid, faults, applied>>

\* no job is being processed
AtRest ==
    /\ cfg = [job_exists |-> FALSE, dry_run |-> FALSE, has_source |-> FALSE,
              has_published |-> FALSE, key_missing |-> FALSE, concurrency |-> 1,
              templates |-> {}]
    /\ status = "QUEUED"
    /\ progress = 0
    /\ error_message = 0
    /\ events = [w \in Deliveries |-> <<>>]
    /\ artifacts = [r \in ArtifactRows |-> 0]
    /\ blobs = [k \in BlobKeys |-> NoBlob]
    /\ pc = [w \in Deliveries |-> "idle"]
    /\ retries = [w \in Deliveries |-> 0]
    /\ result = [w \in Deliveries |-> Null]
    /\ mapping = [w \in Deliveries |-> Null]
    /\ exc = [w \in Deliveries |-> 0]
    /\ did = [w \in Deliveries |-> {}]
    /\ gate = [w \in Deliveries |-> NoGate]
    /\ llm = [w \in Deliveries |-> NoCall]
    /\ runs = [w \in Deliveries |-> 0]
    /\ oracleCalls = 0
    /\ oracleValid = 0
    /\ faults = 0
    /\ applied = [w \in Deliveries |-> NoApply]
    /\ jobs = QueuedJobs

\* a call that has not returned yet, and the same call once it returned ret
Pending(name, args) == [name |-> name, args |-> args, returned |-> FALSE, ret |-> Null]
Returned(call, ret) == [call EXCEPT !.returned = TRUE, !.ret = ret]

\* ---- check_no_gen_policy on documents of bounded depth
\* nesting depth of the documents handed to check_no_gen_policy
MaxDepth == 4

\* keys of the documents: a schema field, a forbidden field, and one in capitals
DocKeys == {"slide_mappings", "generated_text", "New_Content"}

\* the JSON values of depth at most d: a scalar, or a value of depth d - 1 under
\* a key of a dict or as the item of a list
RECURSIVE JsonValues(_)
JsonValues(d) ==
    IF d = 0 THEN {Scalar("slide_0_shape_7")}
    ELSE LET sub == JsonValues(d - 1)
         IN  sub \cup {JDict(<<KV(k, v)>>) : k \in DocKeys, v \in sub}
                 \cup {JList(<<Item(v)>>) : v \in sub}

\* check_no_gen_policy takes a dict
JsonDocs == {v \in JsonValues(MaxDepth) : v.t = "dict"}

InitScan ==
    /\ AtRest
    /\ fn \in {Pending("check_no_gen_policy", d) : d \in JsonDocs}

CallCheckNoGenPolicy ==
    /\ fn.name = "check_no_gen_policy"
    /\ ~fn.returned
    /\ fn' = Returned(fn, check_no_gen_policy(fn.args))
    /\ UNCHANGED <<taskState, jobs>>

NextScan == CallCheckNoGenPolicy

SpecScan == InitScan /\ [][NextScan]_vars

\* ---- the mapping schema and the referential check on bounded mappings
\* element mappings of one slide mapping
MaxMappings == 2

SourceIds == {"slide_0_shape_7", "slide_0_shape_999"}
TargetIds == {Null, "layout_0_ph_1", "layout_0_ph_99"}

\* element mappings as an oracle answer may spell them
RawElementMappings ==
    {EM(src, tgt, act) : src \in SourceIds, tgt \in TargetIds \cup {Omitted},
                         act \in MappingActions \cup {"REPLACE"}}

ElementMappings ==
    {EM(src, tgt, act) : src \in SourceIds, tgt \in TargetIds, act \in MappingActions}

\* the element_mappings lists of up to MaxMappings entries
RECURSIVE MappingLists(_)
MappingLists(n) ==
    IF n = 0 THEN {<<>>}
    ELSE LET shorter == MappingLists(n - 1)
         IN  shorter \cup {Append(ems, em) : ems \in shorter, em \in ElementMappings}

SkippedLists == {<<>>, <<"slide_0_shape_9">>, <<"slide_0_shape_404">>}

\* mappings of no slide, of one slide, and of two slides with one entry each
MappingDocs ==
    {Doc(<<>>, <<>>)}
    \cup {Doc(<<SM(0, ems)>>, sk) : ems \in MappingLists(MaxMappings), sk \in SkippedLists}
    \cup {Doc(<<SM(0, <<e1>>), SM(1, <<e2>>)>>, <<>>) :
            e1 \in ElementMappings, e2 \in ElementMappings}

\* the extraction outputs the referential check is given
ElementIdSets == {ElementIds, {"slide_0_shape_7"}}
PlaceholderIdSets == {PlaceholderIds, {}}

InitSchema ==
    /\ AtRest
    /\ \/ fn \in {Pending("ElementMapping", raw) : raw \in RawElementMappings}
       \/ fn \in {Pending("MappingResult.model_validate",
                           [mapping |-> doc, element_ids |-> es, placeholder_ids |-> ps]) :
                     doc \in MappingDocs, es \in ElementIdSets,
                     ps \in PlaceholderIdSets}

CallElementMapping ==
    /\ fn.name = "ElementMapping"
    /\ ~fn.returned
    /\ fn' = Returned(fn, ElementMappingNew(fn.args))
    /\ UNCHANGED <<taskState, jobs>>

CallModelValidate ==
    /\ fn.name = "MappingResult.model_validate"
    /\ ~fn.returned
    /\ fn' = Returned(fn, SchemaValid(fn.args.mapping))
    /\ UNCHANGED <<taskState, jobs>>

\* the referential check takes a MappingResult: a document the schema accepted
CallValidateMappingAgainstInputs ==
    /\ fn.name = "MappingResult.model_validate"
    /\ fn.returned
    /\ fn.ret
    /\ fn' = [name |-> "validate_mapping_against_inputs", args |-> fn.args,
              returned |-> TRUE,
              ret |-> validate_mapping_against_inputs(fn.args.mapping,
                          fn.args.element_ids, fn.args.placeholder_ids)]
    /\ UNCHANGED <<taskState, jobs>>

NextSchema ==
    \/ CallElementMapping
    \/ CallModelValidate
    \/ CallValidateMappingAgainstInputs

SpecSchema == InitSchema /\ [][NextSchema]_vars

\* ---- _build_mapping_prompt on two element lists
\* n times the character c
RECURSIVE Fill(_, _)
Fill(n, c) == IF n = 0 THEN <<>> ELSE <<c>> \o Fill(n - 1, c)

\* texts around the cut: 49 to 52 characters, told apart by their last character
PreviewTexts ==
    {Fill(n - 1, "a") \o <<c>> : n \in (PreviewCut - 1)..(PreviewCut + 2), c \in {"a", "b"}}

TextPreviews == {NoPreview, Preview(<<>>)} \cup {Preview(t) : t \in PreviewTexts}

\* DeckElement values as parse_deck_elements builds them for one shape
DeckElements ==
    {[element_id |-> "slide_" \o ToString(si) \o "_shape_7",
      slide_index |-> si,
      element_type |-> ty,
      name |-> nm,
      text_preview |-> tp,
      has_image |-> FALSE] :
        si \in {0, 1}, ty \in {"TITLE", "BODY"}, nm \in {"Title 1", "Rectangle 3"},
        tp \in TextPreviews}

\* a second shape of the deck
OtherElements ==
    {[element_id |-> "slide_0_shape_9", slide_index |-> 0, element_type |-> "IMAGE",
      name |-> "Picture 4", text_preview |-> NoPreview, has_image |-> img] :
        img \in BOOLEAN}

TemplatePlaceholders ==
    <<[placeholder_id |-> "layout_0_ph_1", layout_index |-> 0,
       layout_name |-> "Title Slide", placeholder_type |-> "SUBTITLE", idx |-> 1]>>

\* two element lists, each of two elements, and one placeholder list
InitPrompt ==
    /\ AtRest
    /\ fn \in {Pending("_build_mapping_prompt",
                       [a |-> <<e1, o1>>, b |-> <<e2, o2>>,
                        placeholders |-> TemplatePlaceholders]) :
                 e1 \in DeckElements, e2 \in DeckElements,
                 o1 \in OtherElements, o2 \in OtherElements}

CallBuildMappingPrompt ==
    /\ fn.name = "_build_mapping_prompt"
    /\ ~fn.returned
    /\ fn' = Returned(fn, [a |-> build_mapping_prompt(fn.args.a, fn.args.placeholders),
                           b |-> build_mapping_prompt(fn.args.b, fn.args.placeholders)])
    /\ UNCHANGED <<taskState, jobs>>

NextPrompt == CallBuildMappingPrompt

SpecPrompt == InitPrompt /\ [][NextPrompt]_vars

\* ---- apply_mapping on small decks, templates and mappings
\* a source deck of one slide: a title (shape 7), a body (shape 9) and a picture
\* (shape 4, no text frame); a deck is the sequence of its slides' shapes
SourceSlide(body) ==
    <<[shape_id |-> 7, has_text_frame |-> TRUE, paragraphs |-> <<"Q3 results">>],
      [shape_id |-> 9, has_text_frame |-> TRUE, paragraphs |-> body],
      [shape_id |-> 4, has_text_frame |-> FALSE, paragraphs |-> <<>>]>>

SourceDecks ==
    {<<SourceSlide(body)>> : body \in {<<"Revenue up">>, <<"Revenue up", "Costs down">>}}

\* layouts, each the sequence of its placeholders: native idx and the shape id
\* on the layout
TitleAndBody == <<[idx |-> 0, shape_id |-> 2], [idx |-> 1, shape_id |-> 3]>>
TwoContent == <<[idx |-> 1, shape_id |-> 2], [idx |-> 2, shape_id |-> 3]>>

\* a slide the template file already holds
TemplateSlide ==
    [layout_idx |-> 0,
     placeholders |-> <<[idx |-> 0, shape_id |-> 2,
                         paragraphs |-> <<"Click to edit the sample title">>,
                         source |-> Null]>>]

Templates ==
    {[layouts |-> ls, slides |-> sl] :
        ls \in {<<>>, <<TitleAndBody>>, <<TwoContent>>, <<TitleAndBody, TwoContent>>},
        sl \in {<<>>, <<TemplateSlide>>}}

ApplyElementMappings ==
    {EM(src, tgt, "MAP") :
        src \in {ElementId(0, 7), ElementId(0, 9), ElementId(0, 4), ElementId(0, 999),
                  "title"},
        tgt \in {"layout_0_ph_0", "layout_0_ph_1", "layout_0_ph_2", Null}}
    \cup {EM(ElementId(0, 7), Null, "SKIP"), EM(ElementId(0, 9), Null, "OVERFLOW")}

RECURSIVE ApplyMappingLists(_)
ApplyMappingLists(n) ==
    IF n = 0 THEN {<<>>}
    ELSE LET shorter == ApplyMappingLists(n - 1)
         IN  shorter \cup {Append(ems, em) : ems \in shorter, em \in ApplyElementMappings}

\* mappings of one slide, and of two slides with at most one entry each; the
\* second names a layout index past the template's layouts
ApplyMappings ==
    {Doc(<<SM(0, ems)>>, <<>>) : ems \in ApplyMappingLists(MaxMappings)}
    \cup {Doc(<<SM(0, e1), SM(5, e2)>>, <<>>) :
            e1 \in ApplyMappingLists(1), e2 \in ApplyMappingLists(1)}

InitApply ==
    /\ AtRest
    /\ fn \in {Pending("apply_mapping", [deck |-> d, template |-> t, mapping |-> m]) :
                 d \in SourceDecks, t \in Templates, m \in ApplyMappings}

CallApplyMapping ==
    /\ fn.name = "apply_mapping"
    /\ ~fn.returned
    /\ fn' = Returned(fn, apply_mapping(fn.args.deck, fn.args.template, fn.args.mapping))
    /\ UNCHANGED <<taskState, jobs>>

NextApply == CallApplyMapping

SpecApply == InitApply /\ [][NextApply]_vars

\* ---- parse_deck_elements: decks of a few slides, each of a few shapes whose
\* native ids may repeat within a slide and across slides
MaxSlides == 2
MaxShapes == 2
NativeIds == {2, 3, 12}

RECURSIVE SeqsUpTo(_, _)
SeqsUpTo(S, n) ==
    IF n = 0 THEN {<<>>}
    ELSE SeqsUpTo(S, n - 1) \cup {Append(q, x) : q \in SeqsUpTo(S, n - 1), x \in S}

ParsedSlides == SeqsUpTo({[shape_id |-> n] : n \in NativeIds}, MaxShapes)
ParsedDecks == SeqsUpTo(ParsedSlides, MaxSlides)

InitParse ==
    /\ AtRest
    /\ fn \in {Pending("parse_deck_elements", [deck |-> d]) : d \in ParsedDecks}

\* the first pass over the file
CallParseDeckElements ==
    /\ fn.name = "parse_deck_elements"
    /\ ~fn.returned
    /\ fn' = Returned(fn, <<parse_deck_elements(fn.args.deck)>>)
    /\ UNCHANGED <<taskState, jobs>>

\* a second pass over the same file
CallParseDeckElementsAgain ==
    /\ fn.name = "parse_deck_elements"
    /\ fn.returned
    /\ Len(fn.ret) = 1
    /\ fn' = [fn EXCEPT !.ret = Append(@, parse_deck_elements(fn.args.deck))]
    /\ UNCHANGED <<taskState, jobs>>

NextParse == CallParseDeckElements \/ CallParseDeckElementsAgain

SpecParse == InitParse /\ [][NextParse]_vars

\* ------------------------------------------------ several jobs side by side
\* job = session.query(RebuildJob).filter(RebuildJob.id == job_id).first(),
\* then job.status, job.progress and session.commit()
SetJob(js, job_id, st, pr) ==
    [js EXCEPT !.rows[job_id].status = st, !.rows[job_id].progress = pr]

\* emit_event(session, job_id, ...): JobEvent(job_id=job_id, ...)
JobEvent(js, job_id, event_type) ==
    [js EXCEPT !.events[job_id] = Append(@, event_type)]

\* _add_artifact(session, job_id, artifact_type, s3_key, filename)
JobArtifact(js, job_id, artifact_type, filename) ==
    [js EXCEPT !.artifacts[job_id] = Append(@, <<artifact_type, S3Key(job_id, filename)>>)]

\* storage.upload_bytes_sync(body, key)
PutObject(js, key, body) == [js EXCEPT !.objects[key] = body]

JobGoto(js, job_id, l) == [js EXCEPT !.task[job_id].pc = l]

\* the broker delivers rebuild_deck_task(job_id)
JobDeliver(j) ==
    /\ jobs.task[j].pc = "queued"
    /\ jobs' = JobGoto(jobs, j, "load")
    /\ UNCHANGED <<taskState, fn>>

\* STEP 1: the idempotence check, then RUNNING and STARTED
JobLoad(j) ==
    /\ jobs.task[j].pc = "load"
    /\ jobs' = IF jobs.rows[j].status = "SUCCEEDED"
                  \/ jobs.objects[S3Key(j, "output.pptx")] # ""
                 THEN JobGoto(jobs, j, "done")
                 ELSE JobGoto(JobEvent(SetJob(jobs, j, "RUNNING", 5), j, "STARTED"),
                              j, "inputs")
    /\ UNCHANGED <<taskState, fn>>

\* STEPS 2 to 4: the inputs are downloaded into the run's own work_dir and parsed
JobInputs(j) ==
    /\ jobs.task[j].pc = "inputs"
    /\ jobs' = JobGoto(JobEvent(JobEvent(JobEvent(
                   SetJob(jobs, j, "RUNNING", 45),
                   j, "DOWNLOADED"), j, "PARSED_DECK"), j, "PARSED_TEMPLATE"), j, "llm")
    /\ UNCHANGED <<taskState, fn>>

\* STEP 5: the answer is stored under mapping.json, or rejected and stored
\* under failed_mapping.json
JobOracle(j) ==
    /\ jobs.task[j].pc = "llm"
    /\ \/ jobs' = JobGoto(JobEvent(SetJob(JobArtifact(
                      PutObject(jobs, S3Key(j, "mapping.json"), "mapping of " \o j),
                      j, "MAPPING_JSON", "mapping.json"),
                      j, "RUNNING", 60), j, "LLM_MAPPING"), j, "apply")
       \/ /\ jobs.faults < MaxFaults
          /\ jobs' = [JobGoto(JobArtifact(
                          PutObject(jobs, S3Key(j, "failed_mapping.json"), "answer to " \o j),
                          j, "MAPPING_JSON", "failed_mapping.json"), j, "except")
                      EXCEPT !.faults = @ + 1]
    /\ UNCHANGED <<taskState, fn>>

\* STEP 6: apply_mapping writes into the run's own work_dir
JobApply(j) ==
    /\ jobs.task[j].pc = "apply"
    /\ jobs' = JobGoto(JobEvent(SetJob(jobs, j, "RUNNING", 85), j, "MAPPING_APPLIED"),
                       j, "upload")
    /\ UNCHANGED <<taskState, fn>>

\* STEP 7: the output deck, its artifact row and UPLOADED
JobUpload(j) ==
    /\ jobs.task[j].pc = "upload"
    /\ jobs' = JobGoto(JobEvent(JobArtifact(
                   PutObject(jobs, S3Key(j, "output.pptx"), "deck of " \o j),
                   j, "OUTPUT_DECK", "output.pptx"), j, "UPLOADED"), j, "complete")
    /\ UNCHANGED <<taskState, fn>>

\* COMPLETE
JobComplete(j) ==
    /\ jobs.task[j].pc = "complete"
    /\ jobs' = JobGoto(JobEvent(SetJob(jobs, j, "SUCCEEDED", 100), j, "COMPLETED"),
                       j, "done")
    /\ UNCHANGED <<taskState, fn>>

\* a statement of the try block raises
JobRaise(j) ==
    /\ jobs.task[j].pc \in {"load", "inputs", "llm", "apply", "upload", "complete"}
    /\ jobs.faults < MaxFaults
    /\ jobs' = [JobGoto(jobs, j, "except") EXCEPT !.faults = @ + 1]
    /\ UNCHANGED <<taskState, fn>>

\* except Exception: the job is queried by job_id again and marked FAILED
JobExcept(j) ==
    /\ jobs.task[j].pc = "except"
    /\ LET failed == JobEvent([jobs EXCEPT !.rows[j].status = "FAILED",
                                          !.rows[j].error_message = 40], j, "FAILED")
       IN  jobs' = IF ShouldRetry(jobs.task[j].retries)
                     THEN [JobGoto(failed, j, "load") EXCEPT !.task[j].retries = @ + 1]
                     ELSE JobGoto(failed, j, "done")
    /\ UNCHANGED <<taskState, fn>>

NextJobs ==
    \E j \in JobIds :
        \/ JobDeliver(j)
        \/ JobLoad(j)
        \/ JobInputs(j)
        \/ JobOracle(j)
        \/ JobApply(j)
        \/ JobUpload(j)
        \/ JobComplete(j)
        \/ JobRaise(j)
        \/ JobExcept(j)

\* both job rows as the API route created them, no task received yet
InitJobs ==
    /\ AtRest
    /\ fn = NoFn

\* two jobs, each with a worker process of its own
SpecJobs == InitJobs /\ [][NextJobs]_vars

\* ------------------------------------------------------------------ claims
Last(seq) == seq[Len(seq)]

RawOf(text) == CHOOSE raw \in RawOutputs : raw.text = text

\* C1: once the persisted status is SUCCEEDED or FAILED, no attempt of the job
\* (first delivery, retry, re-delivery) changes it again.
C1_TerminalStatus ==
    [][(status \in {"SUCCEEDED", "FAILED"}) => (status' = status)]_vars

\* C2: a run whose idempotence check finds jobs/{job_id}/output.pptx in the store
\* invokes no download, no extraction, no oracle call, no apply and no upload,
\* and returns SUCCEEDED.
C2_IdempotentSkip ==
    \A w \in Deliveries :
        gate[w].output_exists =>
            /\ did[w] = {}
            /\ pc[w] = "done"
            /\ result[w] = "SUCCEEDED"

\* a second delivery arrives after the first produced the OUTPUT_DECK and skips
C2_Witness ==
    /\ artifacts[OutputDeckRow] >= 1
    /\ \E w \in Deliveries :
          /\ gate[w].output_exists
          /\ gate[w].skip
          /\ result[w] = "SUCCEEDED"
          /\ \E v \in Deliveries : v # w /\ "upload_output" \in did[v]

\* C3: a job that is not a dry run has status SUCCEEDED only when the output deck
\* is stored at jobs/{job_id}/output.pptx.
C3_SucceededHasOutput ==
    (~cfg.dry_run /\ status = "SUCCEEDED") => file_exists_sync(OutputKey)

\* a full run succeeded after an earlier attempt had failed
C3_Witness ==
    /\ ~cfg.dry_run
    /\ status = "SUCCEEDED"
    /\ file_exists_sync(OutputKey)
    /\ faults > 0

C5_EveryFailureRetried ==
    \A w \in Deliveries :
        (cfg.job_exists /\ pc[w] = "done" /\ result[w] = "FAILED") =>
            retries[w] = max_retries

\* C5 amended: an attempt that ends in an exception is retried whatever the
\* exception, while fewer than max_retries retries have been used, and gives up
\* with FAILED otherwise; a delivery starts the task body at most
\* max_retries + 1 times; every delivery taken in hand ends with SUCCEEDED or
\* FAILED and no retry pending.
C5_BoundedRetry ==
    /\ [](\A w \in Deliveries : runs[w] <= max_retries + 1 /\ retries[w] <= max_retries)
    /\ [][\A w \in Deliveries :
            (pc[w] = "except" /\ pc'[w] # "except") =>
                IF retries[w] < max_retries
                  THEN pc'[w] = "retry_wait"
                  ELSE pc'[w] = "done" /\ result'[w] = "FAILED"]_vars
    /\ \A w \in Deliveries :
          (pc[w] # "idle") ~> (pc[w] = "done" /\ result[w] \in {"SUCCEEDED", "FAILED"})

\* a delivery gave up after the fourth run of the task body
C5_Witness ==
    \E w \in Deliveries :
        /\ pc[w] = "done"
        /\ result[w] = "FAILED"
        /\ runs[w] = max_retries + 1
        /\ retries[w] = max_retries

\* C6: once mapping.json is stored, no attempt that reaches the mapping step calls
\* the oracle, and the oracle produces a validated mapping at most once for the
\* job.
C6_MappingReused ==
    /\ [][oracleCalls' # oracleCalls => ~file_exists_sync(MappingKey)]_vars
    /\ [](oracleValid <= 1)

\* C7: with no failure injected and the job's inputs in place, deliveries of the
\* same job id, overlapping or not, make at most one oracle call and one
\* OUTPUT_DECK row, and leave the job SUCCEEDED when all have returned.
C7_SafeRedelivery ==
    (faults = 0 /\ cfg.job_exists /\ cfg.has_source /\ cfg.has_published /\ ~cfg.key_missing) =>
        /\ oracleCalls <= 1
        /\ artifacts[OutputDeckRow] <= 1
        /\ (\A w \in Deliveries : pc[w] = "done") => status = "SUCCEEDED"

\* C8: after a run that was skipped because the output blob exists has returned,
\* the persisted status is SUCCEEDED.
C8_GateMarksSucceeded ==
    [][\A w \in Deliveries :
          (pc[w] = "load" /\ pc'[w] = "done" /\ gate'[w].skip /\ gate'[w].output_exists) =>
              status' = "SUCCEEDED"]_vars

\* C9: in a dry run apply_mapping is never invoked, nothing is uploaded to
\* jobs/{job_id}/output.pptx, no OUTPUT_DECK row is written, the task never
\* reaches the upload steps, and a run that obtained a mapping leaves the mapping
\* step only by returning SUCCEEDED with status SUCCEEDED and progress 100, or by
\* an exception.
C9_DryRunStops ==
    /\ [](cfg.dry_run =>
            /\ ~file_exists_sync(OutputKey)
            /\ artifacts[OutputDeckRow] = 0
            /\ \A w \in Deliveries :
                  /\ "apply_mapping" \notin did[w]
                  /\ "upload_output" \notin did[w]
                  /\ pc[w] \notin {"upload", "artifact", "complete"})
    /\ [][\A w \in Deliveries :
            (cfg.dry_run /\ pc[w] = "apply" /\ pc'[w] # "apply") =>
                \/ pc'[w] = "except"
                \/ /\ pc'[w] = "done"
                   /\ result'[w] = "SUCCEEDED"
                   /\ status' = "SUCCEEDED"
                   /\ progress' = 100]_vars

\* a dry run obtained its mapping from the oracle and completed
C9_Witness ==
    /\ cfg.dry_run
    /\ status = "SUCCEEDED"
    /\ progress = 100
    /\ \E w \in Deliveries :
          /\ mapping[w] # Null
          /\ "call_llm_for_mapping" \in did[w]
          /\ pc[w] = "done"
          /\ result[w] = "SUCCEEDED"
          /\ Last(events[w]) = "COMPLETED"

\* C10: call_llm_for_mapping runs JSON parse, schema check, referential check in
\* that order and stops at the first stage that fails; on an answer that is not
\* JSON it raises the validation error with the raw text and runs neither the
\* schema check nor the referential check.
C10_StageOrder ==
    \A w \in Deliveries :
        llm[w].outcome # "none" =>
            LET r == llm[w]
                raw == RawOf(r.raw_output)
                doc == raw.value
            IN  /\ r.raw_output = raw.text
                /\ ~raw.json =>
                      (r.outcome = "LLMValidationError" /\ r.stages = <<"json">>)
                /\ (raw.json /\ ~SchemaValid(doc)) =>
                      (r.outcome = "LLMValidationError" /\ r.stages = <<"json", "schema">>)
                /\ (raw.json /\ SchemaValid(doc)) =>
                      /\ r.stages = <<"json", "schema", "reference">>
                      /\ r.outcome = "ok" <=>
                            validate_mapping_against_inputs(doc, ElementIds, PlaceholderIds) = <<>>

\* the oracle answered with prose and the task got the validation error
C10_Witness ==
    \E w \in Deliveries :
        /\ llm[w].outcome = "LLMValidationError"
        /\ llm[w].stages = <<"json">>
        /\ llm[w].raw_output = RawProse.text
        /\ pc[w] \in {"except", "retry_wait"}

\* the keys of an oracle answer, at every depth of the document
KeysOfAnswer(doc) ==
    DOMAIN doc
    \cup UNION {DOMAIN doc.slide_mappings[i] : i \in 1..Len(doc.slide_mappings)}
    \cup UNION {UNION {DOMAIN doc.slide_mappings[i].element_mappings[j] :
                          j \in 1..Len(doc.slide_mappings[i].element_mappings)} :
                  i \in 1..Len(doc.slide_mappings)}

\* C11: an oracle answer that carries, at any depth, a field name implying
\* generated or modified content is rejected by the adapter: no call of
\* call_llm_for_mapping on such an answer returns a MappingResult, also when the
\* answer fits the schema and all its references are valid.
C11_PolicyScanRejects ==
    \A w \in Deliveries :
        (llm[w].outcome # "none"
         /\ RawOf(llm[w].raw_output).json
         /\ KeysOfAnswer(RawOf(llm[w].raw_output).value) \cap forbidden_fields # {})
        => llm[w].outcome # "ok"

\* every key of a JSON value, whatever it is nested in
RECURSIVE KeysOfJson(_)
KeysOfJson(v) ==
    UNION {(IF v.t = "dict" THEN {v.items[i].k} ELSE {}) \cup KeysOfJson(v.items[i].v) :
             i \in 1..Len(v.items)}

\* the field names of MappingResult, SlideMapping and ElementMapping
SchemaKeys ==
    {"slide_mappings", "skipped_elements", "warnings", "output_slide_index",
     "layout_index", "layout_name", "element_mappings", "source_element_id",
     "target_placeholder_id", "action", "target_layout_index", "target_slide_index",
     "reason"}

\* C12: check_no_gen_policy returns no violation for a document whose keys are
\* all schema fields, and at least one violation for a document in which a
\* forbidden key occurs anywhere: at any depth, under dicts and lists in any
\* mix, lists directly inside lists included.
C12_ScanFindsForbiddenKey ==
    (fn.name = "check_no_gen_policy" /\ fn.returned) =>
        /\ KeysOfJson(fn.args) \subseteq SchemaKeys =>
              (fn.ret.ok /\ fn.ret.violations = <<>>)
        /\ KeysOfJson(fn.args) \cap forbidden_fields # {} =>
              (~fn.ret.ok /\ Len(fn.ret.violations) >= 1)

\* C13: an ElementMapping the schema accepts has action MAP exactly when its
\* target_placeholder_id is not null: MAP with a null or omitted target is
\* rejected, and SKIP or OVERFLOW with a target is rejected.
C13_MapIffTarget ==
    (fn.name = "ElementMapping" /\ fn.returned /\ fn.ret.ok) =>
        (fn.ret.em.action = "MAP" <=> fn.ret.em.target_placeholder_id # Null)

\* the element mappings of all slide mappings, in order
RECURSIVE AllElementMappings(_)
AllElementMappings(sms) ==
    IF sms = <<>> THEN <<>>
    ELSE Head(sms).element_mappings \o AllElementMappings(Tail(sms))

Range(seq) == {seq[i] : i \in 1..Len(seq)}

\* C14: validate_mapping_against_inputs returns no error exactly when every
\* source element the mapping names (in its element mappings and among its
\* skipped elements) is an extracted element and every target_placeholder_id
\* that is not null is an extracted placeholder.
C14_NoErrorIffReferencesExist ==
    (fn.name = "validate_mapping_against_inputs" /\ fn.returned) =>
        LET ems == Range(AllElementMappings(fn.args.mapping.slide_mappings))
        IN  fn.ret = <<>> <=>
              /\ \A em \in ems : em.source_element_id \in fn.args.element_ids
              /\ \A id \in Range(fn.args.mapping.skipped_elements) :
                    id \in fn.args.element_ids
              /\ \A em \in ems :
                    em.target_placeholder_id # Null =>
                        em.target_placeholder_id \in fn.args.placeholder_ids

CountKind(errors, kind) == Cardinality({i \in 1..Len(errors) : errors[i].kind = kind})

\* C15: validate_mapping_against_inputs collects every violation: one "Unknown
\* source element" error per element mapping whose source is unknown, one
\* "Unknown target placeholder" error per MAP mapping whose target is unknown,
\* one "Unknown skipped element" error per unknown skipped id, and nothing
\* else; a single unknown source with valid references otherwise gives exactly
\* one error.
C15_OneErrorPerDanglingReference ==
    (fn.name = "validate_mapping_against_inputs" /\ fn.returned) =>
        LET ems == AllElementMappings(fn.args.mapping.slide_mappings)
            skipped == fn.args.mapping.skipped_elements
            nSource == Cardinality({i \in 1..Len(ems) :
                          ems[i].source_element_id \notin fn.args.element_ids})
            nTarget == Cardinality({i \in 1..Len(ems) :
                          /\ ems[i].action = "MAP"
                          /\ ems[i].target_placeholder_id \notin fn.args.placeholder_ids})
            nSkipped == Cardinality({i \in 1..Len(skipped) :
                          skipped[i] \notin fn.args.element_ids})
        IN  /\ CountKind(fn.ret, "Unknown source element") = nSource
            /\ CountKind(fn.ret, "Unknown target placeholder") = nTarget
            /\ CountKind(fn.ret, "Unknown skipped element") = nSkipped
            /\ Len(fn.ret) = nSource + nTarget + nSkipped
            /\ (nSource = 1 /\ nTarget = 0 /\ nSkipped = 0) =>
                  /\ Len(fn.ret) = 1
                  /\ fn.ret[1].kind = "Unknown source element"

\* a mapping with an unknown source and an unknown target in two slide mappings
\* went through the check and came back with both errors
C15_Witness ==
    /\ fn.name = "validate_mapping_against_inputs"
    /\ fn.returned
    /\ Len(fn.args.mapping.slide_mappings) = 2
    /\ Len(fn.ret) = 2
    /\ fn.ret[1].kind = "Unknown source element"
    /\ fn.ret[2].kind = "Unknown target placeholder"

\* the first 50 characters of a text preview; an absent preview has none
First50(tp) == [i \in 1..(IF Len(tp.chars) < 50 THEN Len(tp.chars) ELSE 50) |-> tp.chars[i]]

\* what the oracle may learn of an element
Disclosed(e) == <<e.element_id, e.slide_index, e.element_type, First50(e.text_preview)>>

\* C16: the prompt depends on an element only through its element_id,
\* slide_index, type and the first 50 characters of its text preview: two element
\* lists that agree on these for every element give the same prompt, and no
\* preview in a prompt is longer than 50 characters.
C16_PromptDisclosesPreviewOnly ==
    (fn.name = "_build_mapping_prompt" /\ fn.returned) =>
        /\ (/\ Len(fn.args.a) = Len(fn.args.b)
            /\ \A i \in 1..Len(fn.args.a) : Disclosed(fn.args.a[i]) = Disclosed(fn.args.b[i]))
           => fn.ret.a = fn.ret.b
        /\ \A p \in {fn.ret.a, fn.ret.b} :
              \A i \in 1..Len(p.elements_json) :
                  Len(p.elements_json[i].text_preview.chars) <= 50

\* two lists that differ in a name, in a flag and past the 50th character of a
\* preview of 52 characters were turned into the same prompt
C16_Witness ==
    /\ fn.name = "_build_mapping_prompt"
    /\ fn.returned
    /\ fn.args.a[1].name # fn.args.b[1].name
    /\ fn.args.a[2].has_image # fn.args.b[2].has_image
    /\ Len(fn.args.a[1].text_preview.chars) = 52
    /\ fn.args.a[1].text_preview # fn.args.b[1].text_preview
    /\ fn.ret.a = fn.ret.b
    /\ Len(fn.ret.a.elements_json[1].text_preview.chars) = 50

\* the MAP entries of all slide mappings of a mapping
MapActions(doc) ==
    LET ems == AllElementMappings(doc.slide_mappings)
    IN  {i \in 1..Len(ems) : ems[i].action = "MAP"}

\* the shape of the source deck an element id names, <<>> when there is none
ShapeNamed(deck, id) ==
    LET hits == {p \in (1..Len(deck)) \X (1..3) :
                   p[2] <= Len(deck[p[1]])
                   /\ ElementId(p[1] - 1, deck[p[1]][p[2]].shape_id) = id}
    IN  IF hits = {} THEN <<>>
        ELSE LET p == CHOOSE q \in hits : TRUE IN <<deck[p[1]][p[2]]>>

\* C17: a MAP action counted in elements_mapped leaves, in the deck that is
\* written, the source element's paragraph texts in its target placeholder:
\* as many paragraphs, in the same order, each with the source paragraph's text.
\* (Read on the source copied last into a placeholder.)
C17_ParagraphsCopiedVerbatim ==
    (fn.name = "apply_mapping" /\ fn.returned /\ fn.ret.saved) =>
        \A n \in 1..Len(fn.ret.slides) :
            \A k \in 1..Len(fn.ret.slides[n].placeholders) :
                LET ph == fn.ret.slides[n].placeholders[k]
                    src == ShapeNamed(fn.args.deck, ph.source)
                IN  (ph.source # Null /\ src # <<>> /\ src[1].has_text_frame) =>
                        ph.paragraphs = src[1].paragraphs

\* the layout apply_mapping uses for a slide mapping
LayoutUsed(template, sm) ==
    IF sm.layout_index < Len(template.layouts) THEN sm.layout_index
    ELSE Len(template.layouts) - 1

\* layout_{L}_ph_{native idx}
NativeId(layout_idx, idx) == "layout_" \o ToString(layout_idx) \o "_ph_" \o ToString(idx)

\* every MAP entry names a shape of the deck and, by its native idx, a
\* placeholder of the layout of its slide
AllMapsResolvable(deck, template, doc) ==
    \A i \in 1..Len(doc.slide_mappings) :
        LET sm == doc.slide_mappings[i]
            L == LayoutUsed(template, sm)
        IN  \A j \in 1..Len(sm.element_mappings) :
                LET em == sm.element_mappings[j]
                IN  em.action = "MAP" =>
                       /\ ShapeNamed(deck, em.source_element_id) # <<>>
                       /\ \E k \in 1..Len(template.layouts[L + 1]) :
                             em.target_placeholder_id =
                                 NativeId(L, template.layouts[L + 1][k].idx)

\* C18: when every MAP entry names an existing source shape and a placeholder
\* of its slide's layout as layout_{L}_ph_{native idx}, a title placeholder of
\* idx 0 included, apply_mapping applies them all: elements_mapped is the
\* number of MAP entries and there is no warning (and nothing skipped when
\* there is no SKIP entry); slide_0_shape_7 -> layout_0_ph_0 with
\* slide_0_shape_9 -> layout_0_ph_1 gives slides_created = 1, elements_mapped = 2.
C18_NativeIdxResolves ==
    (/\ fn.name = "apply_mapping" /\ fn.returned /\ fn.ret.saved
     /\ AllMapsResolvable(fn.args.deck, fn.args.template, fn.args.mapping)) =>
        /\ fn.ret.result.elements_mapped = Cardinality(MapActions(fn.args.mapping))
        /\ fn.ret.result.warnings = <<>>
        /\ (\A em \in Range(AllElementMappings(fn.args.mapping.slide_mappings)) :
               em.action # "SKIP") => fn.ret.result.elements_skipped = 0
        /\ fn.args.mapping.slide_mappings =
               <<SM(0, <<EM("slide_0_shape_7", "layout_0_ph_0", "MAP"),
                         EM("slide_0_shape_9", "layout_0_ph_1", "MAP")>>)>>
           => (fn.ret.result.slides_created = 1 /\ fn.ret.result.elements_mapped = 2)

\* C19: the deck apply_mapping writes has one slide per SlideMapping and no
\* other slide, also when the template file already holds slides.
C19_OneSlidePerSlideMapping ==
    (fn.name = "apply_mapping" /\ fn.returned /\ fn.ret.saved) =>
        Len(fn.ret.slides) = Len(fn.args.mapping.slide_mappings)

\* C20: on a template with at least one layout, slides_created is the number
\* of slide mappings and elements_mapped is at most the number of MAP entries,
\* so 0 when there is none.
C20_Counters ==
    (fn.name = "apply_mapping" /\ fn.returned /\ fn.args.template.layouts # <<>>) =>
        /\ fn.ret.result.slides_created = Len(fn.args.mapping.slide_mappings)
        /\ fn.ret.result.elements_mapped <= Cardinality(MapActions(fn.args.mapping))
        /\ MapActions(fn.args.mapping) = {} => fn.ret.result.elements_mapped = 0

\* a mapping of two slides, one entry SKIP and one OVERFLOW, was applied
C20_Witness ==
    /\ fn.name = "apply_mapping"
    /\ fn.returned
    /\ fn.args.template.layouts # <<>>
    /\ Len(fn.args.mapping.slide_mappings) = 2
    /\ Len(AllElementMappings(fn.args.mapping.slide_mappings)) = 2
    /\ MapActions(fn.args.mapping) = {}
    /\ fn.ret.result.slides_created = 2
    /\ fn.ret.result.elements_mapped = 0
    /\ fn.ret.result.elements_skipped = 1

\* the SKIP and OVERFLOW entries of all slide mappings of a mapping
ExcludedActions(doc) ==
    LET ems == AllElementMappings(doc.slide_mappings)
    IN  {i \in 1..Len(ems) : ems[i].action \in {"SKIP", "OVERFLOW"}}

\* C21: after apply_mapping has applied a mapping, elements_skipped is the
\* number of element mappings whose action is SKIP or OVERFLOW, and every
\* placeholder that received content received it from the source of a MAP entry.
C21_SkipAndOverflowCounted ==
    (fn.name = "apply_mapping" /\ fn.returned /\ fn.ret.saved) =>
        /\ fn.ret.result.elements_skipped = Cardinality(ExcludedActions(fn.args.mapping))
        /\ \A n \in 1..Len(fn.ret.slides) :
               \A k \in 1..Len(fn.ret.slides[n].placeholders) :
                   LET ph == fn.ret.slides[n].placeholders[k]
                       ems == AllElementMappings(fn.args.mapping.slide_mappings)
                   IN  ph.source # Null =>
                           \E i \in MapActions(fn.args.mapping) :
                               ems[i].source_element_id = ph.source

\* the runs past apply_mapping
PostApply == {"upload", "artifact", "complete"}

\* C22: a MAP entry whose source shape or target placeholder is missing never
\* aborts: on a template with layouts the only error apply_mapping reports is
\* an exception it caught; without one the file is written, every MAP entry is
\* either counted in elements_mapped or has one warning, the task goes on to
\* the upload, leaves the pipeline only through a transient exception, and
\* otherwise returns SUCCEEDED.
C22_WarningsNeverAbort ==
    /\ [](\A w \in Deliveries :
            (applied[w].called /\ TemplateFile(applied[w].template).layouts # <<>>) =>
                /\ applied[w].result.errors \in {<<>>, <<"str(e)">>}
                /\ applied[w].result.errors = <<>> =>
                      /\ applied[w].saved
                      /\ Len(applied[w].result.warnings) + applied[w].result.elements_mapped
                             = Cardinality(MapActions(MappingResultOf(mapping[w]))))
    /\ [][\A w \in Deliveries :
            /\ (pc[w] = "apply" /\ applied'[w].called /\ applied'[w].result.errors = <<>>
                /\ faults' = faults)
               => (pc'[w] = "upload" /\ progress' = 85
                   /\ Last(events'[w]) = "MAPPING_APPLIED")
            /\ (pc[w] \in PostApply /\ pc'[w] = "except") => faults' = faults + 1]_vars
    /\ \A w \in Deliveries :
          (pc[w] = "upload" /\ applied[w].result.warnings # <<>>)
              ~> ((pc[w] = "done" /\ result[w] = "SUCCEEDED") \/ pc[w] = "except")

\* a run whose apply_mapping left a warning returned SUCCEEDED, output uploaded
C22_Witness ==
    \E w \in Deliveries :
        /\ applied[w].called
        /\ applied[w].result.warnings # <<>>
        /\ applied[w].result.elements_mapped = 0
        /\ "upload_output" \in did[w]
        /\ file_exists_sync(OutputKey)
        /\ result[w] = "SUCCEEDED"
        /\ status = "SUCCEEDED"

\* the run called apply_mapping on a template without layouts
NoLayoutsRun(w) == applied[w].called /\ TemplateFile(applied[w].template).layouts = <<>>

\* C23: on a template with zero layouts apply_mapping returns errors, no
\* output_path and slides_created = 0; the task leaves the try block without
\* uploading, and its handler marks the job FAILED with the blobs untouched.
C23_NoLayoutsAborts ==
    /\ [](\A w \in Deliveries :
            NoLayoutsRun(w) =>
                /\ applied[w].result.errors # <<>>
                /\ ~applied[w].saved
                /\ applied[w].result.slides_created = 0
                /\ "upload_output" \notin did[w]
                /\ pc[w] \in {"except", "retry_wait", "done"}
                /\ pc[w] = "done" => result[w] = "FAILED")
    /\ [][\A w \in Deliveries :
            /\ (pc[w] = "apply" /\ NoLayoutsRun(w)')
               => (pc'[w] = "except" /\ blobs' = blobs /\ artifacts' = artifacts)
            /\ (pc[w] = "except" /\ NoLayoutsRun(w))
               => (status' = "FAILED" /\ error_message' = LenApplyErrors
                   /\ Last(events'[w]) = "FAILED" /\ blobs' = blobs)]_vars

\* the handler has marked such an attempt FAILED; no output blob exists
C23_Witness ==
    \E w \in Deliveries :
        /\ NoLayoutsRun(w)
        /\ pc[w] = "retry_wait"
        /\ status = "FAILED"
        /\ error_message = LenApplyErrors
        /\ ~file_exists_sync(OutputKey)

\* the step of delivery w is the oracle call of its run ending in the ValueError
\* the task raises for a rejected answer
RejectedStep(w) ==
    /\ pc[w] = "llm"
    /\ pc'[w] = "except"
    /\ llm'[w].outcome = "LLMValidationError"
    /\ exc'[w] = LLMErrLen(llm'[w])

\* the step of delivery w is the oracle call of its run failing in the provider
ProviderFailedStep(w) ==
    /\ pc[w] = "llm"
    /\ pc'[w] = "except"
    /\ "call_llm_for_mapping" \in did'[w]
    /\ llm'[w] = NoCall

\* C24: an oracle answer that fails the JSON, schema or reference stage ends
\* the attempt with the raw answer stored under failed_mapping.json and one
\* artifact row for it, nothing written under mapping.json, and then the job
\* FAILED with an error_message of at most 500 characters; a failed provider
\* call stores nothing and ends the attempt with the job FAILED as well.
C24_RejectedAnswerKept ==
    [][\A w \in Deliveries :
         /\ RejectedStep(w) =>
               /\ blobs'[FailedKey].body = llm'[w].raw_output
               /\ artifacts'[FailedMappingRow] = artifacts[FailedMappingRow] + 1
               /\ blobs'[MappingKey] = blobs[MappingKey]
               /\ artifacts'[MappingRow] = artifacts[MappingRow]
         /\ ProviderFailedStep(w) => (blobs' = blobs /\ artifacts' = artifacts)
         /\ (pc[w] = "except" /\ "call_llm_for_mapping" \in did[w]
             /\ "apply_mapping" \notin did[w])
            => (status' = "FAILED" /\ error_message' <= ErrMax
                /\ Last(events'[w]) = "FAILED")]_vars

\* how many shapes the slides before slide number s (from 1) hold
RECURSIVE ShapesBefore(_, _)
ShapesBefore(deck, s) ==
    IF s <= 1 THEN 0 ELSE ShapesBefore(deck, s - 1) + Len(deck[s - 1])

\* the native ids are distinct within each slide
DistinctWithinSlides(deck) ==
    \A s \in 1..Len(deck) :
        \A i, j \in 1..Len(deck[s]) :
            i # j => deck[s][i].shape_id # deck[s][j].shape_id

\* C25: two passes of parse_deck_elements over one deck return the same
\* elements in the same order: one per shape, slide by slide and shape by
\* shape, each named slide_{slide index}_shape_{native id}; the ids are
\* pairwise distinct when the native ids are distinct within each slide.
C25_StableElementIds ==
    (fn.name = "parse_deck_elements" /\ fn.returned /\ Len(fn.ret) = 2) =>
        LET deck == fn.args.deck
            first == fn.ret[1].elements
        IN  /\ fn.ret[1] = fn.ret[2]
            /\ Len(first) = ShapesBefore(deck, Len(deck) + 1)
            /\ \A s \in 1..Len(deck) :
                   \A i \in 1..Len(deck[s]) :
                       first[ShapesBefore(deck, s) + i].element_id =
                           "slide_" \o ToString(s - 1) \o "_shape_"
                               \o ToString(deck[s][i].shape_id)
            /\ DistinctWithinSlides(deck) =>
                   \A m, n \in 1..Len(first) :
                       m # n => first[m].element_id # first[n].element_id

\* both passes are done on a deck of two slides that use the same native ids
C25_Witness ==
    /\ fn.name = "parse_deck_elements"
    /\ fn.returned
    /\ Len(fn.ret) = 2
    /\ fn.args.deck = <<<<[shape_id |-> 2], [shape_id |-> 12]>>,
                        <<[shape_id |-> 2], [shape_id |-> 12]>>>>
    /\ fn.ret[2].elements[3].element_id = "slide_1_shape_2"

\* the place of a milestone event in the pipeline, 0 for PROGRESS and FAILED
PipelineRank(event_type) ==
    CASE event_type = "STARTED" -> 1
      [] event_type = "DOWNLOADED" -> 2
      [] event_type = "PARSED_DECK" -> 3
      [] event_type = "PARSED_TEMPLATE" -> 4
      [] event_type = "LLM_MAPPING" -> 5
      [] event_type = "MAPPING_APPLIED" -> 6
      [] event_type = "UPLOADED" -> 7
      [] event_type = "COMPLETED" -> 8
      [] OTHER -> 0

IsMilestone(event_type) == PipelineRank(event_type) > 0

IsPrefix(s, t) == Len(s) <= Len(t) /\ SubSeq(t, 1, Len(s)) = s

\* C26: the event log only grows, every earlier log being a prefix of every
\* later one; the milestone events of one attempt, which starts at STARTED,
\* come in pipeline order; and a COMPLETED of a job that is not a dry run has
\* an UPLOADED before it in the same attempt.
C26_EventLogOrdered ==
    /\ [][\A w \in Deliveries : IsPrefix(events[w], events'[w])]_vars
    /\ [](\A w \in Deliveries :
            LET log == SelectSeq(events[w], IsMilestone) IN
            /\ \A i \in 1..(Len(log) - 1) :
                   log[i + 1] = "STARTED"
                   \/ PipelineRank(log[i]) < PipelineRank(log[i + 1])
            /\ ~cfg.dry_run =>
                   \A i \in 1..Len(log) :
                       log[i] = "COMPLETED" => (i > 1 /\ log[i - 1] = "UPLOADED"))

\* a delivery whose first attempt failed after the download and whose second
\* attempt completed
C26_Witness ==
    \E w \in Deliveries :
        /\ ~cfg.dry_run
        /\ Len(events[w]) > 12
        /\ Last(events[w]) = "COMPLETED"
        /\ \E i, j \in 1..Len(events[w]) :
              /\ i < j
              /\ events[w][i] = "DOWNLOADED"
              /\ events[w][j] = "FAILED"

\* what belongs to a job: its record, its events, its artifacts, its blobs
JobView(js, k) ==
    [row |-> js.rows[k], events |-> js.events[k], artifacts |-> js.artifacts[k],
     objects |-> [f \in FileNames |-> js.objects[S3Key(k, f)]]]

\* C27: with the tasks of two jobs running at once, a step of one job's task
\* leaves the other job's record, events, artifacts and blobs as they were,
\* and the other task where it was.
C27_JobsIsolated ==
    [][\A j \in JobIds :
         jobs'.task[j] # jobs.task[j] =>
             \A k \in JobIds \ {j} :
                 JobView(jobs', k) = JobView(jobs, k) /\ jobs'.task[k] = jobs.task[k]]_vars

\* both tasks are in their pipelines: one has uploaded its deck, the other has
\* stored its mapping and nothing else
C27_Witness ==
    /\ jobs.task["job-a"].pc = "complete"
    /\ jobs.task["job-b"].pc = "apply"
    /\ jobs.objects[S3Key("job-a", "output.pptx")] = "deck of job-a"
    /\ jobs.objects[S3Key("job-b", "output.pptx")] = ""
    /\ jobs.objects[S3Key("job-b", "mapping.json")] = "mapping of job-b"
    /\ jobs.rows["job-a"].progress = 85
    /\ jobs.rows["job-b"].progress = 60

\* the answer with this text parses, fits the schema and names only elements
\* and placeholders of the job's inputs
Validated(text) ==
    LET raw == RawOf(text)
    IN  /\ raw.json
        /\ SchemaValid(raw.value)
        /\ validate_mapping_against_inputs(raw.value, ElementIds, PlaceholderIds) = <<>>

\* C28: the mapping a run holds, the mapping apply_mapping is called with and
\* the content of mapping.json have passed the schema and the reference
\* validation; an answer that failed a stage is stored under
\* failed_mapping.json only, is never taken up by the reuse path and never
\* applied.
C28_OnlyValidatedMappingApplied ==
    /\ [](\A w \in Deliveries :
            /\ mapping[w] # Null => Validated(mapping[w])
            /\ "apply_mapping" \in did[w] => mapping[w] # Null
            /\ pc[w] \in {"save_mapping", "mapped", "apply", "upload", "artifact", "complete"}
                  => mapping[w] # Null)
    /\ [](file_exists_sync(MappingKey) =>
            /\ blobs[MappingKey].kind = "MappingResult json"
            /\ Validated(blobs[MappingKey].body))
    /\ [](file_exists_sync(FailedKey) =>
            /\ blobs[FailedKey].kind = "raw oracle output"
            /\ ~Validated(blobs[FailedKey].body))
    /\ [][\A w \in Deliveries :
            mapping'[w] \notin {mapping[w], Null} =>
                (pc[w] = "llm" /\ llm'[w].outcome = "ok"
                 /\ mapping'[w] = llm'[w].raw_output)]_vars

\* a rejected answer lies under failed_mapping.json, a later run of the same
\* delivery stored a validated mapping and applied it
C28_Witness ==
    \E w \in Deliveries :
        /\ "apply_mapping" \in did[w]
        /\ applied[w].called
        /\ file_exists_sync(FailedKey)
        /\ file_exists_sync(MappingKey)
        /\ blobs[MappingKey].body = mapping[w]
        /\ blobs[FailedKey].body # mapping[w]

\* C29: in every reachable state of the job, after failures at any step and
\* across retries, progress lies in 0..100, and progress is 100 only while the
\* status is SUCCEEDED.
C29_ProgressFollowsStatus ==
    /\ progress \in 0..100
    /\ progress = 100 => status = "SUCCEEDED"

\* C30: whenever a run of the task returns SUCCEEDED for a job that is not a
\* dry run, after any failed attempts and retries, the job has exactly one
\* OUTPUT_DECK artifact row, pointing at jobs/{job_id}/output.pptx.
C30_OneOutputDeckRow ==
    \A w \in Deliveries :
        (~cfg.dry_run /\ pc[w] = "done" /\ result[w] = "SUCCEEDED")
            => artifacts[OutputDeckRow] = 1

====
